---- MODULE Spec2Model ----
(***************************************************************************)
(* LuxSim Pro (app.py): the lighting computation engine and the part of    *)
(* main() that drives it.                                                  *)
(*                                                                         *)
(* Numbers.  TLC has 32-bit integers only, so every real quantity of the   *)
(* program is held as an exact integer in a fixed unit:                    *)
(*   area_length, area_width   half metres   (the widgets step by 0.5 m)   *)
(*   area (area4)              quarter square metres (= length * width)    *)
(*   room_height, mounting_height   tenths of a metre                      *)
(*   maintenance_factor, utilization_factor   twentieths (sliders step     *)
(*                             by 0.05)                                    *)
(*   required_lux, lumens, wattage, num_lights, total_wattage   units      *)
(*   actual_lux                tenths of a lux        (round(x, 1))        *)
(*   spacing                   centimetres            (round(x, 2))        *)
(*   coverage_area             tenths of a square metre (round(x, 1))      *)
(*   uniformity                hundredths             (round(x, 2))        *)
(*   energy and cost figures   hundredths of a kWh / of a dollar           *)
(*   cost_per_kwh              cents per kWh (the widget steps by 0.01)    *)
(* A quotient is never formed before it is rounded: ceil, round and the    *)
(* comparisons are taken on the exact numerator / denominator pair.        *)
(*                                                                         *)
(* The program computes in binary64.  What the model keeps of that:        *)
(*   - np.tan(pi/2) = 1.633e16 (beam_angle 180) and np.tan(pi) = -1.22e-16 *)
(*     (beam_angle 360): see TanHalfBeam;                                  *)
(*   - round() goes to the nearest value, exact ties to the even one.      *)
(* What it leaves out: the last-bit error of a product or quotient.  It    *)
(* shows only where the exact value is an integer or a rounding tie: there *)
(* the program's np.ceil can give one more than the exact ceiling (7 m x   *)
(* 8 m, 150 lux, MF 0.8, UF 0.7, 15000 lm: 0.8 * 0.7 = 0.5599999999999999  *)
(* and the program reports 2 lights where the exact quotient is 1), and    *)
(* its round() can land on the other neighbour of a tie.  Neither makes a  *)
(* count smaller than the exact one.                                       *)
(***************************************************************************)
EXTENDS Integers, Sequences, FiniteSets, TLC

(***************************************************************************)
(* Arithmetic helpers                                                      *)
(***************************************************************************)
Min(a, b) == IF a <= b THEN a ELSE b

Max(a, b) == IF a >= b THEN a ELSE b

\* np.ceil(n / d) for d > 0 (\div rounds towards minus infinity)
CeilDiv(n, d) == (n + d - 1) \div d

\* round(n / d) to the nearest integer, exact ties to the even neighbour
\* (Python's round), for d # 0; rounding is symmetric about zero
RoundDiv(n, d) ==
    LET a == IF n >= 0 THEN n ELSE -n
        b == IF d >= 0 THEN d ELSE -d
        q == a \div b
        r == a % b
        m == IF 2 * r < b THEN q
             ELSE IF 2 * r > b THEN q + 1
             ELSE IF q % 2 = 0 THEN q ELSE q + 1
    IN  IF (n < 0) = (d < 0) THEN m ELSE -m

\* what a field holds when its quotient was 0 / 0: np.float64 division gives
\* nan (with a RuntimeWarning, no exception), and round() keeps it
NotANumber == "nan"

\* round(sqrt(n / d) * 100) for n >= 0, d > 0: the largest s with
\* (s - 1/2)^2 <= 10000 n / d, i.e. (2s - 1)^2 <= floor(40000 n / d), found digit by
\* digit; an exact tie (sqrt = s - 1/2) goes to the even neighbour
RoundSqrtCenti(n, d) ==
    LET Below(s) == (2 * s - 1) * (2 * s - 1) <= (40000 * n) \div d
        RECURSIVE Climb(_, _)
        Climb(s, step) == IF Below(s + step) THEN Climb(s + step, step) ELSE s
        s3 == Climb(0, 1000)
        s2 == Climb(s3, 100)
        s1 == Climb(s2, 10)
        s0 == Climb(s1, 1)
    IN  IF /\ s0 > 0
           /\ (40000 * n) % d = 0
           /\ (2 * s0 - 1) * (2 * s0 - 1) = (40000 * n) \div d
           /\ s0 % 2 = 1
        THEN s0 - 1 ELSE s0

(***************************************************************************)
(* The fixture catalogs.  A Python dict keeps insertion order, so a catalog *)
(* is the sequence of its (category, lights) items; mounting_height is in   *)
(* tenths of a metre.                                                       *)
(***************************************************************************)
IndoorCatalog ==
    << [category |-> "Residential", lights |-> <<
          [wattage |-> 9, lumens |-> 800, cri |-> 80, color_temp |-> "3000K", type |-> "LED Bulb", ip_rating |-> "IP20", beam_angle |-> 120],
          [wattage |-> 12, lumens |-> 1100, cri |-> 80, color_temp |-> "3000K", type |-> "LED Bulb", ip_rating |-> "IP20", beam_angle |-> 120],
          [wattage |-> 15, lumens |-> 1400, cri |-> 80, color_temp |-> "4000K", type |-> "LED Downlight", ip_rating |-> "IP44", beam_angle |-> 90],
          [wattage |-> 18, lumens |-> 1700, cri |-> 85, color_temp |-> "4000K", type |-> "LED Downlight", ip_rating |-> "IP44", beam_angle |-> 90] >>],
       [category |-> "Office", lights |-> <<
          [wattage |-> 18, lumens |-> 1800, cri |-> 85, color_temp |-> "4000K", type |-> "LED Panel", ip_rating |-> "IP20", beam_angle |-> 110],
          [wattage |-> 24, lumens |-> 2400, cri |-> 85, color_temp |-> "4000K", type |-> "LED Panel", ip_rating |-> "IP20", beam_angle |-> 110],
          [wattage |-> 36, lumens |-> 3600, cri |-> 85, color_temp |-> "4000K", type |-> "LED Panel", ip_rating |-> "IP20", beam_angle |-> 110],
          [wattage |-> 48, lumens |-> 4800, cri |-> 85, color_temp |-> "5000K", type |-> "LED Panel", ip_rating |-> "IP20", beam_angle |-> 110] >>],
       [category |-> "Commercial", lights |-> <<
          [wattage |-> 20, lumens |-> 2000, cri |-> 85, color_temp |-> "4000K", type |-> "LED Track Light", ip_rating |-> "IP20", beam_angle |-> 60],
          [wattage |-> 30, lumens |-> 3000, cri |-> 85, color_temp |-> "4000K", type |-> "LED Track Light", ip_rating |-> "IP20", beam_angle |-> 60],
          [wattage |-> 40, lumens |-> 4000, cri |-> 90, color_temp |-> "5000K", type |-> "LED Downlight", ip_rating |-> "IP44", beam_angle |-> 90],
          [wattage |-> 50, lumens |-> 5000, cri |-> 90, color_temp |-> "5000K", type |-> "LED Downlight", ip_rating |-> "IP44", beam_angle |-> 90] >>],
       [category |-> "Industrial", lights |-> <<
          [wattage |-> 50, lumens |-> 5000, cri |-> 80, color_temp |-> "5000K", type |-> "LED High Bay", ip_rating |-> "IP65", beam_angle |-> 90],
          [wattage |-> 100, lumens |-> 10000, cri |-> 80, color_temp |-> "5000K", type |-> "LED High Bay", ip_rating |-> "IP65", beam_angle |-> 90],
          [wattage |-> 150, lumens |-> 15000, cri |-> 80, color_temp |-> "5000K", type |-> "LED High Bay", ip_rating |-> "IP65", beam_angle |-> 90],
          [wattage |-> 200, lumens |-> 20000, cri |-> 80, color_temp |-> "5000K", type |-> "LED High Bay", ip_rating |-> "IP65", beam_angle |-> 90] >>],
       [category |-> "Educational", lights |-> <<
          [wattage |-> 18, lumens |-> 1800, cri |-> 85, color_temp |-> "4000K", type |-> "LED Panel", ip_rating |-> "IP20", beam_angle |-> 110],
          [wattage |-> 24, lumens |-> 2400, cri |-> 85, color_temp |-> "4000K", type |-> "LED Panel", ip_rating |-> "IP20", beam_angle |-> 110],
          [wattage |-> 36, lumens |-> 3600, cri |-> 85, color_temp |-> "4000K", type |-> "LED Panel", ip_rating |-> "IP20", beam_angle |-> 110] >>],
       [category |-> "Healthcare", lights |-> <<
          [wattage |-> 18, lumens |-> 1800, cri |-> 90, color_temp |-> "4000K", type |-> "LED Panel", ip_rating |-> "IP44", beam_angle |-> 110],
          [wattage |-> 24, lumens |-> 2400, cri |-> 90, color_temp |-> "4000K", type |-> "LED Panel", ip_rating |-> "IP44", beam_angle |-> 110],
          [wattage |-> 36, lumens |-> 3600, cri |-> 90, color_temp |-> "5000K", type |-> "LED Panel", ip_rating |-> "IP44", beam_angle |-> 110] >>] >>

OutdoorCatalog ==
    << [category |-> "Residential Estates", lights |-> <<
          [wattage |-> 18, lumens |-> 1800, cri |-> 80, color_temp |-> "3000K", type |-> "LED Wall Light", ip_rating |-> "IP65", beam_angle |-> 120, mounting_height |-> 30],
          [wattage |-> 24, lumens |-> 2400, cri |-> 80, color_temp |-> "3000K", type |-> "LED Bollard Light", ip_rating |-> "IP65", beam_angle |-> 360, mounting_height |-> 10],
          [wattage |-> 30, lumens |-> 3000, cri |-> 80, color_temp |-> "4000K", type |-> "LED Flood Light", ip_rating |-> "IP65", beam_angle |-> 120, mounting_height |-> 40],
          [wattage |-> 50, lumens |-> 5000, cri |-> 80, color_temp |-> "4000K", type |-> "LED Post Top", ip_rating |-> "IP65", beam_angle |-> 180, mounting_height |-> 50] >>],
       [category |-> "Parks & Recreation", lights |-> <<
          [wattage |-> 12, lumens |-> 1200, cri |-> 80, color_temp |-> "3000K", type |-> "LED Garden Light", ip_rating |-> "IP65", beam_angle |-> 360, mounting_height |-> 8],
          [wattage |-> 20, lumens |-> 2000, cri |-> 80, color_temp |-> "3000K", type |-> "LED Path Light", ip_rating |-> "IP65", beam_angle |-> 120, mounting_height |-> 10],
          [wattage |-> 30, lumens |-> 3000, cri |-> 80, color_temp |-> "4000K", type |-> "LED Flood Light", ip_rating |-> "IP65", beam_angle |-> 90, mounting_height |-> 40],
          [wattage |-> 50, lumens |-> 5000, cri |-> 80, color_temp |-> "4000K", type |-> "LED Area Light", ip_rating |-> "IP65", beam_angle |-> 120, mounting_height |-> 60] >>],
       [category |-> "Sports Facilities", lights |-> <<
          [wattage |-> 100, lumens |-> 10000, cri |-> 80, color_temp |-> "5000K", type |-> "LED Sports Flood", ip_rating |-> "IP66", beam_angle |-> 60, mounting_height |-> 80],
          [wattage |-> 150, lumens |-> 15000, cri |-> 80, color_temp |-> "5000K", type |-> "LED Sports Flood", ip_rating |-> "IP66", beam_angle |-> 60, mounting_height |-> 80],
          [wattage |-> 200, lumens |-> 20000, cri |-> 80, color_temp |-> "5000K", type |-> "LED Sports Flood", ip_rating |-> "IP66", beam_angle |-> 45, mounting_height |-> 100],
          [wattage |-> 300, lumens |-> 30000, cri |-> 80, color_temp |-> "5700K", type |-> "LED Sports Flood", ip_rating |-> "IP66", beam_angle |-> 45, mounting_height |-> 120] >>],
       [category |-> "Pedestrian Infrastructure", lights |-> <<
          [wattage |-> 18, lumens |-> 1800, cri |-> 70, color_temp |-> "4000K", type |-> "LED Street Light", ip_rating |-> "IP65", beam_angle |-> 120, mounting_height |-> 60],
          [wattage |-> 24, lumens |-> 2400, cri |-> 70, color_temp |-> "4000K", type |-> "LED Street Light", ip_rating |-> "IP65", beam_angle |-> 120, mounting_height |-> 60],
          [wattage |-> 36, lumens |-> 3600, cri |-> 70, color_temp |-> "4000K", type |-> "LED Street Light", ip_rating |-> "IP65", beam_angle |-> 120, mounting_height |-> 80],
          [wattage |-> 24, lumens |-> 2400, cri |-> 70, color_temp |-> "4000K", type |-> "LED Underpass Light", ip_rating |-> "IP65", beam_angle |-> 90, mounting_height |-> 30] >>],
       [category |-> "Roads & Car Parks", lights |-> <<
          [wattage |-> 30, lumens |-> 3000, cri |-> 70, color_temp |-> "4000K", type |-> "LED Street Light", ip_rating |-> "IP65", beam_angle |-> 120, mounting_height |-> 80],
          [wattage |-> 50, lumens |-> 5000, cri |-> 70, color_temp |-> "4000K", type |-> "LED Street Light", ip_rating |-> "IP65", beam_angle |-> 120, mounting_height |-> 90],
          [wattage |-> 70, lumens |-> 7000, cri |-> 70, color_temp |-> "5000K", type |-> "LED Street Light", ip_rating |-> "IP65", beam_angle |-> 120, mounting_height |-> 100],
          [wattage |-> 100, lumens |-> 10000, cri |-> 70, color_temp |-> "5000K", type |-> "LED Flood Light", ip_rating |-> "IP65", beam_angle |-> 90, mounting_height |-> 120] >>],
       [category |-> "Security & Safety", lights |-> <<
          [wattage |-> 20, lumens |-> 2000, cri |-> 80, color_temp |-> "5000K", type |-> "LED Security Light", ip_rating |-> "IP65", beam_angle |-> 110, mounting_height |-> 40],
          [wattage |-> 30, lumens |-> 3000, cri |-> 80, color_temp |-> "5000K", type |-> "LED Security Light", ip_rating |-> "IP65", beam_angle |-> 110, mounting_height |-> 40],
          [wattage |-> 50, lumens |-> 5000, cri |-> 80, color_temp |-> "5000K", type |-> "LED Flood Light", ip_rating |-> "IP66", beam_angle |-> 90, mounting_height |-> 50],
          [wattage |-> 15, lumens |-> 1500, cri |-> 80, color_temp |-> "4000K", type |-> "LED Bulkhead", ip_rating |-> "IP65", beam_angle |-> 120, mounting_height |-> 30] >>],
       [category |-> "Water Features", lights |-> <<
          [wattage |-> 9, lumens |-> 800, cri |-> 80, color_temp |-> "3000K", type |-> "LED Landscape Light", ip_rating |-> "IP67", beam_angle |-> 60, mounting_height |-> 5],
          [wattage |-> 12, lumens |-> 1100, cri |-> 80, color_temp |-> "3000K", type |-> "LED Landscape Light", ip_rating |-> "IP67", beam_angle |-> 60, mounting_height |-> 5],
          [wattage |-> 18, lumens |-> 1700, cri |-> 80, color_temp |-> "4000K", type |-> "LED Pond Light", ip_rating |-> "IP68", beam_angle |-> 120, mounting_height |-> 2],
          [wattage |-> 24, lumens |-> 2400, cri |-> 80, color_temp |-> "4000K", type |-> "LED Flood Light", ip_rating |-> "IP66", beam_angle |-> 90, mounting_height |-> 20] >>] >>

(***************************************************************************)
(* np.tan(np.radians(beam_angle / 2)), as a fixed-point number with four   *)
(* decimals.  Two catalog angles leave the fixed-point range in binary64:  *)
(*   beam_angle = 180: tan(pi/2) evaluates to 1.633e16 (finite, positive); *)
(*   beam_angle = 360: tan(pi) evaluates to -1.2246e-16 (negative, tiny).  *)
(* They are kept as kinds "pole" and "negzero"; each quantity derived from *)
(* them is given by its own case below.                                    *)
(***************************************************************************)
TanHalfBeam(beam_angle) ==
    CASE beam_angle = 45  -> [kind |-> "regular", e4 |-> 4142]
      [] beam_angle = 60  -> [kind |-> "regular", e4 |-> 5774]
      [] beam_angle = 90  -> [kind |-> "regular", e4 |-> 10000]
      [] beam_angle = 110 -> [kind |-> "regular", e4 |-> 14281]
      [] beam_angle = 120 -> [kind |-> "regular", e4 |-> 17321]
      [] beam_angle = 180 -> [kind |-> "pole", e4 |-> 0]
      [] beam_angle = 360 -> [kind |-> "negzero", e4 |-> 0]

(***************************************************************************)
(* calculate_indoor_lights                                                 *)
(***************************************************************************)
\* total_lumens_required = (required_lux * area) / (maintenance_factor *
\* utilization_factor), as numerator and denominator:
\* lux * (area4 / 4) / ((mf / 20) * (uf / 20)) = lux * area4 * 100 / (mf * uf)
LumensRequiredNumInverted(required_lux, area4) == (area4 * 100 * 22500) \div required_lux

LumensRequiredNum(required_lux, area4) == required_lux * area4 * 100

LumensRequiredDen(maintenance_factor, utilization_factor) ==
    maintenance_factor * utilization_factor

\* num_lights = np.ceil(total_lumens_required / lumens_per_light)
NumLightsLumensNoCeil(lumens_per_light, required_lux, area4, maintenance_factor, utilization_factor) ==
    Max(1, LumensRequiredNum(required_lux, area4) \div
               (LumensRequiredDen(maintenance_factor, utilization_factor) * lumens_per_light))

NumLightsLumensNoFactors(lumens_per_light, required_lux, area4, maintenance_factor, utilization_factor) ==
    CeilDiv(required_lux * area4, 4 * lumens_per_light)

NumLightsLumens(lumens_per_light, required_lux, area4, maintenance_factor, utilization_factor) ==
    CeilDiv(LumensRequiredNum(required_lux, area4),
            LumensRequiredDen(maintenance_factor, utilization_factor) * lumens_per_light)

\* actual_lux = (num_lights * lumens_per_light * mf * uf) / area, round(., 1):
\* in tenths of a lux, n * l * (mf/20) * (uf/20) / (area4/4) * 10
\*                     = n * l * mf * uf / (10 * area4)
\* area = 0 makes num_lights 0 as well, and the quotient 0 / 0
ActualLux(num_lights, lumens_per_light, area4, maintenance_factor, utilization_factor) ==
    IF area4 = 0 THEN NotANumber
    ELSE RoundDiv(num_lights * lumens_per_light * maintenance_factor * utilization_factor,
                  10 * area4)

\* max_spacing = room_height * tan(beam_angle / 2) * 2, in centimetres:
\* (h10 / 10) * (e4 / 10^4) * 2 * 100 = h10 * e4 / 500
\* spacing = min(sqrt(area / num_lights), max_spacing), round(., 2); rounding
\* is monotone, so the minimum is taken on the rounded values
\* num_lights = 0: area / num_lights is 0 / 0 = nan when area = 0, and min(nan, x)
\* is nan; otherwise it is +inf (num_lights is -0.0 when area < 0) and the
\* minimum is max_spacing.  num_lights < 0 comes with area < 0: a positive
\* quotient.  A negative quotient has no square root: nan.
IndoorSpacing(light, num_lights, area4, room_height) ==
    LET max_spacing == RoundDiv(room_height * TanHalfBeam(light.beam_angle).e4, 500)
    IN  IF num_lights = 0
        THEN IF area4 = 0 THEN NotANumber ELSE max_spacing
        ELSE IF (area4 < 0) # (num_lights < 0) THEN NotANumber
        ELSE IF area4 < 0 THEN Min(RoundSqrtCenti(-area4, -4 * num_lights), max_spacing)
        ELSE Min(RoundSqrtCenti(area4, 4 * num_lights), max_spacing)

\* the dict appended for one light of one category (lines 289-303)
IndoorCandidate(category, light, area4, room_height, required_lux, maintenance_factor, utilization_factor) ==
    LET lumens_per_light == light.lumens
        num_lights == NumLightsLumens(lumens_per_light, required_lux, area4,
                                      maintenance_factor, utilization_factor)
    IN  [ environment   |-> "Indoor",
          category      |-> category,
          light_type    |-> light.type,
          wattage       |-> light.wattage,
          lumens        |-> lumens_per_light,
          num_lights    |-> num_lights,
          total_wattage |-> num_lights * light.wattage,
          actual_lux    |-> ActualLux(num_lights, lumens_per_light, area4,
                                      maintenance_factor, utilization_factor),
          spacing       |-> IndoorSpacing(light, num_lights, area4, room_height),
          cri           |-> light.cri,
          color_temp    |-> light.color_temp,
          ip_rating     |-> light.ip_rating,
          beam_angle    |-> light.beam_angle ]

(***************************************************************************)
(* results.sort(key=lambda x: (x['num_lights'], x['total_wattage'])):      *)
(* Python's list.sort is stable; the key tuples compare lexicographically. *)
(***************************************************************************)
KeyLess(a, b) ==
    \/ a.num_lights < b.num_lights
    \/ a.num_lights = b.num_lights /\ a.total_wattage < b.total_wattage

\* x goes behind every element whose key is not greater than its own
InsertByKeyUnstable(sorted, x) ==
    LET before == {k \in 1..Len(sorted) : KeyLess(sorted[k], x)}
        p == Cardinality(before)
    IN  SubSeq(sorted, 1, p) \o <<x>> \o SubSeq(sorted, p + 1, Len(sorted))

InsertByKey(sorted, x) ==
    LET before == {k \in 1..Len(sorted) : ~KeyLess(x, sorted[k])}
        p == Cardinality(before)
    IN  SubSeq(sorted, 1, p) \o <<x>> \o SubSeq(sorted, p + 1, Len(sorted))

RECURSIVE SortFrom(_, _, _)
SortFrom(unsorted, k, sorted) ==
    IF k > Len(unsorted) THEN sorted
    ELSE SortFrom(unsorted, k + 1, InsertByKey(sorted, unsorted[k]))

SortByKeyWattageFirst(unsorted) ==
    LET Less(a, b) == \/ a.total_wattage < b.total_wattage
                      \/ a.total_wattage = b.total_wattage /\ a.num_lights < b.num_lights
        RECURSIVE Ins(_, _, _)
        Ins(u, k, srt) ==
            IF k > Len(u) THEN srt
            ELSE LET p == Cardinality({i \in 1..Len(srt) : ~Less(u[k], srt[i])})
                 IN  Ins(u, k + 1, SubSeq(srt, 1, p) \o <<u[k]>> \o SubSeq(srt, p + 1, Len(srt)))
    IN  Ins(unsorted, 1, <<>>)

SortByKey(unsorted) == SortFrom(unsorted, 1, <<>>)

\* for category, lights in CATALOG.items(): for light in lights: the
\* (category, light) pairs in loop order
RECURSIVE CatalogLoop(_, _)
CatalogLoop(catalog, c) ==
    IF c > Len(catalog) THEN <<>>
    ELSE [k \in 1..Len(catalog[c].lights) |->
             [category |-> catalog[c].category, light |-> catalog[c].lights[k]]]
         \o CatalogLoop(catalog, c + 1)

\* the sorted results list returned by calculate_indoor_lights
IndoorResults(catalog, area_length, area_width, room_height, required_lux, maintenance_factor, utilization_factor) ==
    LET area4  == area_length * area_width
        items == CatalogLoop(catalog, 1)
    IN  SortByKey([k \in 1..Len(items) |->
            IndoorCandidate(items[k].category, items[k].light, area4, room_height,
                            required_lux, maintenance_factor, utilization_factor)])

(***************************************************************************)
(* binary64 arithmetic, for the places where the last bit of a float       *)
(* decides a reported field.  A natural number of any size is the sequence *)
(* of its digits in base LimbBase, least significant first, without high   *)
(* zeros; a positive float is [sig, exp] with value sig * 2^exp and sig of *)
(* at most SigBits bits.  Intermediate values are bound as parameters of   *)
(* local operators rather than as local definitions, and After makes TLC   *)
(* evaluate operands before the operation that uses them: TLC then         *)
(* evaluates each of them once, on a shallow stack.                        *)
(***************************************************************************)
LimbBits == 15

LimbBase == 2^LimbBits

\* significand width of binary64
SigBits == 53

\* result, with first evaluated before it
After(first, result) == <<first, result>>[2]

BigDigit(a, k) == IF k >= 1 /\ k <= Len(a) THEN a[k] ELSE 0

\* a without its high zeros
BigNorm(a) ==
    LET used == {k \in 1..Len(a) : a[k] # 0}
    IN  SubSeq(a, 1, IF used = {} THEN 0 ELSE CHOOSE k \in used : \A j \in used : j <= k)

\* a natural number below 2^31
BigOf(n) ==
    BigNorm(<<n % LimbBase, (n \div LimbBase) % LimbBase, n \div (LimbBase * LimbBase)>>)

\* the value of a natural number of at most two digits
BigSmall(a) == BigDigit(a, 1) + LimbBase * BigDigit(a, 2)

\* digit sums s carry into digit k when a digit below overflows and every
\* digit between is full
CarryInto(s, k) ==
    \E j \in 1..(k - 1) : s[j] >= LimbBase /\ \A m \in (j + 1)..(k - 1) : s[m] = LimbBase - 1

BigAdd(a, b) ==
    LET len == Max(Len(a), Len(b)) + 1
        s   == SubSeq([k \in 1..len |-> BigDigit(a, k) + BigDigit(b, k)], 1, len)
    IN  BigNorm([k \in 1..len |-> (s[k] + (IF CarryInto(s, k) THEN 1 ELSE 0)) % LimbBase])

\* digit differences t borrow from digit k when a digit below is negative and
\* every digit between is zero
BorrowFrom(t, k) ==
    \E j \in 1..(k - 1) : t[j] < 0 /\ \A m \in (j + 1)..(k - 1) : t[m] = 0

\* a - b for a >= b
BigSub(a, b) ==
    LET t == SubSeq([k \in 1..Len(a) |-> a[k] - BigDigit(b, k)], 1, Len(a))
    IN  BigNorm([k \in 1..Len(a) |->
                    (t[k] - (IF BorrowFrom(t, k) THEN 1 ELSE 0) + LimbBase) % LimbBase])

\* a * k for 0 <= k < LimbBase: the low halves of the digit products plus
\* their high halves one digit up
BigMulSmall(a, k) ==
    BigAdd([j \in 1..Len(a) |-> (a[j] * k) % LimbBase],
           [j \in 1..(Len(a) + 1) |-> IF j = 1 THEN 0 ELSE (a[j - 1] * k) \div LimbBase])

\* a * b for b of at most four digits (a significand): digit k collects the
\* low halves of the digit products a[i] * b[j] with i + j = k + 1 and the
\* high halves of those with i + j = k; the digit sums, below 8 * LimbBase,
\* are split the same way
BigMul(a, b) ==
    LET Low(k, j)  == (BigDigit(a, k + 1 - j) * BigDigit(b, j)) % LimbBase
        High(k, j) == (BigDigit(a, k - j) * BigDigit(b, j)) \div LimbBase
        Column(k)  == Low(k, 1) + Low(k, 2) + Low(k, 3) + Low(k, 4)
                          + High(k, 1) + High(k, 2) + High(k, 3) + High(k, 4)
        len        == Len(a) + Len(b) + 1
        columns    == SubSeq([k \in 1..len |-> Column(k)], 1, len)
    IN  BigAdd([k \in 1..len |-> columns[k] % LimbBase],
               [k \in 1..len |-> IF k = 1 THEN 0 ELSE columns[k - 1] \div LimbBase])

\* -1, 0, 1 as a < b, a = b, a > b
BigCmp(a, b) ==
    IF Len(a) # Len(b) THEN (IF Len(a) > Len(b) THEN 1 ELSE -1)
    ELSE LET differ == {k \in 1..Len(a) : a[k] # b[k]}
         IN  IF differ = {} THEN 0
             ELSE LET top == CHOOSE k \in differ : \A j \in differ : j <= k
                  IN  IF a[top] > b[top] THEN 1 ELSE -1

BigBitLen(a) ==
    IF a = <<>> THEN 0
    ELSE LimbBits * (Len(a) - 1)
            + (CHOOSE bits \in 1..LimbBits : 2^(bits - 1) <= a[Len(a)] /\ a[Len(a)] < 2^bits)

\* a * 2^s
BigShl(a, s) ==
    LET whole == s \div LimbBits
        part  == s % LimbBits
    IN  BigNorm([k \in 1..(Len(a) + whole + 1) |->
                    ((BigDigit(a, k - whole) * 2^part) % LimbBase)
                        + (BigDigit(a, k - whole - 1) \div 2^(LimbBits - part))])

\* floor(a / 2^s)
BigShr(a, s) ==
    LET whole == s \div LimbBits
        part  == s % LimbBits
    IN  BigNorm([k \in 1..Len(a) |->
                    (BigDigit(a, k + whole) \div 2^part)
                        + ((BigDigit(a, k + whole + 1) % 2^part) * 2^(LimbBits - part))])

BigOdd(a) == BigDigit(a, 1) % 2 = 1

\* bit n of a, the lowest being bit 0
BigBit(a, n) == (BigDigit(a, n \div LimbBits + 1) \div 2^(n % LimbBits)) % 2

\* whether the n lowest bits of a are all zero
BigLowZero(a, n) ==
    /\ \A k \in 1..(n \div LimbBits) : BigDigit(a, k) = 0
    /\ BigDigit(a, n \div LimbBits + 1) % 2^(n % LimbBits) = 0

\* -1, 0, 1 as the n lowest bits of a are below, equal to or above half of 2^n
BigHalf(a, n) ==
    IF BigBit(a, n - 1) = 0 THEN -1 ELSE IF BigLowZero(a, n - 1) THEN 0 ELSE 1

\* sig * 2^exp rounded to SigBits bits, ties to even; inexact says that the
\* number rounded lies strictly above sig * 2^exp (below (sig + 1) * 2^exp)
RoundToFloat(sig, exp, inexact) ==
    LET Rounded(drop, kept, half) ==
            [sig |-> IF half > 0 \/ (half = 0 /\ (inexact \/ BigOdd(kept)))
                     THEN BigAdd(kept, <<1>>) ELSE kept,
             exp |-> exp + drop]
        Kept(drop) ==
            IF drop <= 0 THEN [sig |-> sig, exp |-> exp]
            ELSE Rounded(drop, BigShr(sig, drop), BigHalf(sig, drop))
    IN  After(sig, Kept(BigBitLen(sig) - SigBits))

\* the float of a natural number below 2^31
FloatOf(n) == [sig |-> BigOf(n), exp |-> 0]

\* x * 2^k, exact
FloatScale(x, k) == [sig |-> x.sig, exp |-> x.exp + k]

FloatMul(x, y) ==
    After(<<x, y>>, RoundToFloat(BigMul(x.sig, y.sig), x.exp + y.exp, FALSE))

\* the quotient digit and the remainder of r by d, from a guess of the digit
\* that is not too small and the product of d by it
RECURSIVE SettleDigit(_, _, _, _)
SettleDigit(guess, product, r, d) ==
    IF BigCmp(product, r) <= 0 THEN [digit |-> guess, r |-> BigSub(r, product)]
    ELSE SettleDigit(guess - 1, BigSub(product, d), r, d)

\* one step of long division, for r < d * LimbBase and d with its top digit at
\* least LimbBase / 2: the two top digits of r by the top digit of d overshoot
\* the quotient digit by at most 2
QuotientStep(r, d) ==
    LET From(guess) == SettleDigit(guess, BigMulSmall(d, guess), r, d)
    IN  After(r, From(Min(LimbBase - 1,
                          (BigDigit(r, Len(d) + 1) * LimbBase + BigDigit(r, Len(d)))
                              \div d[Len(d)])))

\* long division, one digit of n at a time from the top
RECURSIVE BigDivDigits(_, _)
BigDivDigits(n, d) ==
    IF Len(n) < Len(d) THEN [q |-> <<>>, r |-> n]
    ELSE LET Extend(high, step) ==
                 After(step, [q |-> BigNorm(<<step.digit>> \o high.q), r |-> step.r])
             Lower(high) ==
                 After(high, Extend(high, QuotientStep(BigNorm(<<n[1]>> \o high.r), d)))
         IN  Lower(BigDivDigits(Tail(n), d))

\* floor(n / d), and whether the division leaves a remainder; the divisor is
\* shifted until its top digit is at least LimbBase / 2
BigDiv(n, d) ==
    LET Result(qr) == [q |-> qr.q, inexact |-> qr.r # <<>>]
        Divide(dividend, divisor) ==
            After(<<dividend, divisor>>, Result(BigDivDigits(dividend, divisor)))
        Shifted(up) == Divide(BigShl(n, up), BigShl(d, up))
    IN  Shifted(LimbBits - (BigBitLen(d) - LimbBits * (Len(d) - 1)))

\* x / y: the dividend is shifted until the quotient has more than SigBits + 1
\* bits, which are then rounded
FloatDiv(x, y) ==
    LET Rounded(shift, qr) ==
            After(qr, RoundToFloat(qr.q, x.exp - y.exp - shift, qr.inexact))
        Shifted(shift) == Rounded(shift, BigDiv(BigShl(x.sig, shift), y.sig))
    IN  After(<<x, y>>, Shifted(SigBits + 3 + BigBitLen(y.sig) - BigBitLen(x.sig)))

\* np.rint of a float below 2^30: the nearest integer, ties to even
FloatRint(x) ==
    LET Rounded(kept, half) ==
            IF half > 0 \/ (half = 0 /\ BigOdd(kept)) THEN BigAdd(kept, <<1>>) ELSE kept
    IN  After(x, IF x.exp >= 0 THEN BigShl(x.sig, x.exp)
                 ELSE Rounded(BigShr(x.sig, -x.exp), BigHalf(x.sig, -x.exp)))

\* -1, 0, 1 as x < y, x = y, x > y
FloatCmp(x, y) ==
    IF x.exp >= y.exp THEN BigCmp(BigShl(x.sig, x.exp - y.exp), y.sig)
    ELSE BigCmp(x.sig, BigShl(y.sig, y.exp - x.exp))

(***************************************************************************)
(* calculate_outdoor_lights                                                *)
(***************************************************************************)
\* utilization_factor = 0.5 (line 316), in twentieths
OutdoorUtilizationFactor == 10

\* The cap that stands for 1 / (pi * tan(pi)^2) = 2.1e31 in the coverage count
\* of a 360-degree fixture; any value above 2 per square metre keeps the
\* count above every lumen-driven count the widgets admit.
TanPiCountCap == 100

\* the sign of coverage_radius = mounting_height * tan(beam_angle / 2):
\* mounting_height > 0 throughout the catalog, so it is the sign of the tangent
CoverageRadiusSign(light) ==
    CASE TanHalfBeam(light.beam_angle).kind = "regular" -> 1
      [] TanHalfBeam(light.beam_angle).kind = "pole"    -> 1
      [] TanHalfBeam(light.beam_angle).kind = "negzero" -> -1

\* whether the half-angle handed to np.tan is below 90 degrees (line 326
\* passes beam_angle / 2 as it is)
HalfAngleBelow90(light) == light.beam_angle < 180

\* which formula line 327 takes for coverage_area: "np.pi * coverage_radius**2
\* if light['beam_angle'] > 180 else 2 * coverage_radius * mounting_height"
CoverageShape(light) == IF light.beam_angle > 180 THEN "circle" ELSE "strip"

\* which branch line 335 takes for spacing: "if light['beam_angle'] >= 180"
SpacingRule(light) ==
    IF light.beam_angle >= 180 THEN "omnidirectional" ELSE "directional"

\* coverage_area, round(., 1), in tenths of a square metre.
\*   beam_angle > 180:  pi * coverage_radius^2
\*   otherwise:         2 * coverage_radius * mounting_height
\*                      = 2 * (h10/10)^2 * e4/10^4 * 10 = 2 h10^2 e4 / 10^5
\* pole: 2 * 1.633e16 * h^2 exceeds every integer of the model, the field
\* saturates; negzero: pi * (1.2e-16 h)^2 rounds to 0.0
CoverageAreaField(light) ==
    LET t == TanHalfBeam(light.beam_angle)
        h == light.mounting_height
    IN  IF CoverageShape(light) = "circle"
        THEN CASE t.kind = "negzero" -> 0
        ELSE CASE t.kind = "regular" -> RoundDiv(2 * h * h * t.e4, 100000)
               [] t.kind = "pole"    -> 2000000000

\* num_lights_area = np.ceil(area / coverage_area):
\*   regular: (area4 / 4) / (2 h10^2 e4 / 10^6) = 125000 area4 / (h10^2 e4)
\*   pole:    area / (2 * 1.633e16 * h^2) lies in (0, 1) for every area > 0
\*   negzero: area / (pi * tan(pi)^2 * h^2) = 25 area4 * 2.1e31 / h10^2, capped
NumLightsAreaNoCoverage(light, area4) == 1

NumLightsArea(light, area4) ==
    LET t == TanHalfBeam(light.beam_angle)
        h == light.mounting_height
    IN  IF CoverageShape(light) = "circle"
        THEN CASE t.kind = "negzero" -> CeilDiv(25 * area4 * TanPiCountCap, h * h)
        ELSE CASE t.kind = "regular" -> CeilDiv(125000 * area4, h * h * t.e4)
               [] t.kind = "pole"    -> 1

\* spacing, round(., 2), in centimetres.
\*   beam_angle >= 180: min(2 * coverage_radius, 10)
\*   otherwise:         min(1.5 * coverage_radius, 15), with
\*                      1.5 * (h10/10) * (e4/10^4) * 100 = 3 h10 e4 / 2000
\* pole: 2 * 1.633e16 * h > 10; negzero: 2 * (-1.2e-16 h) rounds to -0.0
OutdoorSpacing(light) ==
    LET t == TanHalfBeam(light.beam_angle)
        h == light.mounting_height
    IN  IF SpacingRule(light) = "omnidirectional"
        THEN CASE t.kind = "pole"    -> 1000
               [] t.kind = "negzero" -> 0
        ELSE Min(RoundDiv(3 * h * t.e4, 2000), 1500)

\* np.pi = 3.141592653589793 = 7074237752028440 * 2^-51
PiFloat == [sig |-> <<11544, 10376, 2029, 201>>, exp |-> -51]

\* |np.tan(np.radians(360 / 2))| = 1.2246467991473532e-16
\*                               = 4967757600021511 * 2^-105
TanPiFloat == [sig |-> <<23559, 26152, 6296, 141>>, exp |-> -105]

\* the float of a catalog mounting_height (tenths of a metre)
HeightFloat(mounting_height) == FloatDiv(FloatOf(mounting_height), FloatOf(10))

\* the float of area_length * area_width, exact in quarter square metres
AreaFloat(area4) == FloatScale(FloatOf(area4), -2)

\* np.ceil(area / coverage_area) of a 360-degree fixture, area > 0, before
\* int(): coverage_radius = mounting_height * tan(pi) (line 326),
\* coverage_area = np.pi * coverage_radius**2 (line 327); the quotient is an
\* integer near 1e32 already
TanPiCount(light, area4) ==
    LET CoverageArea(coverage_radius) ==
            FloatMul(PiFloat, FloatMul(coverage_radius, coverage_radius))
    IN  FloatDiv(AreaFloat(area4),
                 CoverageArea(FloatMul(HeightFloat(light.mounting_height), TanPiFloat)))

\* whether num_lights is the coverage count of a 360-degree fixture
DrivenByTanPi(light, area4, num_lights) ==
    /\ TanHalfBeam(light.beam_angle).kind = "negzero"
    /\ area4 # 0
    /\ num_lights = NumLightsArea(light, area4)

\* the float that num_lights holds before int()
CountFloat(light, area4, num_lights) ==
    IF DrivenByTanPi(light, area4, num_lights)
    THEN TanPiCount(light, IF area4 < 0 THEN -area4 ELSE area4)
    ELSE FloatOf(num_lights)

\* int(num_lights * light['wattage']) (line 353) multiplies in binary64 before
\* it converts.  Below 2^53 the product is exact.  The count of a 360-degree
\* fixture fills its 53-bit significand, so the product is rounded: the sign
\* of int(fl(num_lights * wattage)) - int(num_lights) * wattage, which a
\* negative area mirrors.
ProductRoundOff(light, area4, num_lights) ==
    LET RoundOff(count) ==
            FloatCmp(FloatMul(count, FloatOf(light.wattage)),
                     [sig |-> BigMulSmall(count.sig, light.wattage), exp |-> count.exp])
        Mirrored(sign) == IF area4 < 0 THEN -sign ELSE sign
    IN  IF DrivenByTanPi(light, area4, num_lights)
        THEN Mirrored(RoundOff(CountFloat(light, area4, num_lights)))
        ELSE 0

\* the float of a slider value given in twentieths (0.55 is 11 / 20)
TwentiethsFloat(twentieths) == FloatDiv(FloatOf(twentieths), FloatOf(20))

\* uniformity = actual_lux / (num_lights * lumens_per_light / area) (line 344)
\* as binary64 evaluates it, then round(., 2) = np.rint(. * 100) / 100, in
\* hundredths.  actual_lux is line 341:
\* (num_lights * lumens_per_light * maintenance_factor * utilization_factor) / area
UniformityFloat(count, lumens_per_light, area4, maintenance_factor, utilization_factor) ==
    LET Achieved(lumens) ==
            FloatDiv(FloatMul(FloatMul(lumens, TwentiethsFloat(maintenance_factor)),
                              TwentiethsFloat(utilization_factor)),
                     AreaFloat(area4))
        Quotient(lumens) == FloatDiv(Achieved(lumens), FloatDiv(lumens, AreaFloat(area4)))
    IN  BigSmall(FloatRint(FloatMul(Quotient(FloatMul(count, FloatOf(lumens_per_light))),
                                    FloatOf(100))))

\* 'uniformity': the quotient is mf * uf up to a few units in the last place,
\* in hundredths (mf/20) * (uf/20) * 100 = mf * uf / 4.  Those units decide
\* the rounding only when mf * uf / 4 lies midway between two hundredths;
\* elsewhere the exact quotient is rounded.  0 if num_lights is not positive.
Uniformity(light, area4, num_lights, maintenance_factor) ==
    IF num_lights > 0
    THEN IF (maintenance_factor * OutdoorUtilizationFactor) % 4 = 2
         THEN UniformityFloat(CountFloat(light, area4, num_lights), light.lumens, area4,
                              maintenance_factor, OutdoorUtilizationFactor)
         ELSE RoundDiv(maintenance_factor * OutdoorUtilizationFactor, 4)
    ELSE 0

\* 'total_wattage': int(num_lights * light['wattage']) (line 353)
TotalWattage(light, area4, num_lights) ==
    num_lights * light.wattage + ProductRoundOff(light, area4, num_lights)

\* the dict appended for one light of one category (lines 346-363)
OutdoorCandidate(category, light, area4, required_lux, maintenance_factor) ==
    LET lumens_per_light  == light.lumens
        num_lights_area   == NumLightsArea(light, area4)
        num_lights_lumens == NumLightsLumens(lumens_per_light, required_lux, area4,
                                 maintenance_factor, OutdoorUtilizationFactor)
        num_lights        == Max(num_lights_area, num_lights_lumens)
    IN  [ environment     |-> "Outdoor",
          category        |-> category,
          light_type      |-> light.type,
          wattage         |-> light.wattage,
          lumens          |-> lumens_per_light,
          num_lights      |-> num_lights,
          total_wattage   |-> TotalWattage(light, area4, num_lights),
          actual_lux      |-> ActualLux(num_lights, lumens_per_light, area4,
                                  maintenance_factor, OutdoorUtilizationFactor),
          spacing         |-> OutdoorSpacing(light),
          mounting_height |-> light.mounting_height,
          cri             |-> light.cri,
          color_temp      |-> light.color_temp,
          ip_rating       |-> light.ip_rating,
          beam_angle      |-> light.beam_angle,
          coverage_area   |-> CoverageAreaField(light),
          uniformity      |-> Uniformity(light, area4, num_lights, maintenance_factor) ]

\* the sorted results list returned by calculate_outdoor_lights; area_type and
\* uniformity_requirement are parameters the body never reads
OutdoorResults(catalog, area_length, area_width, required_lux, area_type, maintenance_factor, uniformity_requirement) ==
    LET area4  == area_length * area_width
        items == CatalogLoop(catalog, 1)
    IN  SortByKey([k \in 1..Len(items) |->
            OutdoorCandidate(items[k].category, items[k].light, area4,
                             required_lux, maintenance_factor)])

(***************************************************************************)
(* calculate_energy_cost: figures in hundredths (round(., 2)).             *)
(*   daily_consumption = (W / 1000) * hours          -> W h / 10           *)
(*   daily_cost = daily_consumption * cost_per_kwh   -> W h c / 1000       *)
(* The monthly and yearly figures multiply the unrounded daily one.        *)
(***************************************************************************)
CalculateEnergyCostMonthOfYear(total_wattage, hours_per_day, days_per_year, cost_per_kwh) ==
    [ daily_consumption   |-> RoundDiv(total_wattage * hours_per_day, 10),
      monthly_consumption |-> RoundDiv(total_wattage * hours_per_day * days_per_year, 120),
      yearly_consumption  |-> RoundDiv(total_wattage * hours_per_day * days_per_year, 10),
      daily_cost          |-> RoundDiv(total_wattage * hours_per_day * cost_per_kwh, 1000),
      monthly_cost        |-> RoundDiv(total_wattage * hours_per_day * days_per_year * cost_per_kwh, 12000),
      yearly_cost         |-> RoundDiv(total_wattage * hours_per_day * days_per_year * cost_per_kwh, 1000) ]

CalculateEnergyCostFixedYear(total_wattage, hours_per_day, days_per_year, cost_per_kwh) ==
    [ daily_consumption   |-> RoundDiv(total_wattage * hours_per_day, 10),
      monthly_consumption |-> RoundDiv(total_wattage * hours_per_day * 30, 10),
      yearly_consumption  |-> RoundDiv(total_wattage * hours_per_day * 365, 10),
      daily_cost          |-> RoundDiv(total_wattage * hours_per_day * cost_per_kwh, 1000),
      monthly_cost        |-> RoundDiv(total_wattage * hours_per_day * 30 * cost_per_kwh, 1000),
      yearly_cost         |-> RoundDiv(total_wattage * hours_per_day * 365 * cost_per_kwh, 1000) ]

CalculateEnergyCost(total_wattage, hours_per_day, days_per_year, cost_per_kwh) ==
    [ daily_consumption   |-> RoundDiv(total_wattage * hours_per_day, 10),
      monthly_consumption |-> RoundDiv(total_wattage * hours_per_day * 30, 10),
      yearly_consumption  |-> RoundDiv(total_wattage * hours_per_day * days_per_year, 10),
      daily_cost          |-> RoundDiv(total_wattage * hours_per_day * cost_per_kwh, 1000),
      monthly_cost        |-> RoundDiv(total_wattage * hours_per_day * 30 * cost_per_kwh, 1000),
      yearly_cost         |-> RoundDiv(total_wattage * hours_per_day * days_per_year * cost_per_kwh, 1000) ]

(***************************************************************************)
(* The grid loop of create_indoor_layout and create_outdoor_layout.  A     *)
(* position is the exact fraction <<numerator, denominator>> in half       *)
(* metres: (i + 1) * x_spacing = (i + 1) * area_length / (rows + 1).       *)
(***************************************************************************)
\* int(np.ceil(np.sqrt(num_lights * area_length / area_width))): the least r
\* with r * r * area_width >= num_lights * area_length
RECURSIVE CeilSqrtRatio(_, _, _)
CeilSqrtRatio(n, d, r) ==
    IF r * r * d >= n THEN r ELSE CeilSqrtRatio(n, d, r + 1)

LightsPerRowOfSquare(area_length, area_width, num_lights) ==
    CeilSqrtRatio(num_lights, 1, 0)

LightsPerRow(area_length, area_width, num_lights) ==
    CeilSqrtRatio(num_lights * area_length, area_width, 0)

\* int(np.ceil(num_lights / lights_per_row))
LightsPerColFloor(num_lights, lights_per_row) == num_lights \div lights_per_row

LightsPerCol(num_lights, lights_per_row) == CeilDiv(num_lights, lights_per_row)

\* for i in range(rows): for j in range(cols): if len(x_positions) < n: append
RECURSIVE GridLoop(_, _, _, _, _, _, _, _)
GridLoop(i, j, rows, cols, n, area_length, area_width, placed) ==
    IF i >= rows THEN placed
    ELSE IF j >= cols
         THEN GridLoop(i + 1, 0, rows, cols, n, area_length, area_width, placed)
         ELSE GridLoop(i, j + 1, rows, cols, n, area_length, area_width,
                  IF Len(placed.x_positions) < n
                  THEN [ x_positions |-> Append(placed.x_positions,
                                               <<(i + 1) * area_length, rows + 1>>),
                         y_positions |-> Append(placed.y_positions,
                                               <<(j + 1) * area_width, cols + 1>>) ]
                  ELSE placed)

GridPositions(area_length, area_width, num_lights) ==
    LET rows == LightsPerRow(area_length, area_width, num_lights)
        cols == LightsPerCol(num_lights, rows)
    IN  GridLoop(0, 0, rows, cols, num_lights, area_length, area_width,
                 [x_positions |-> <<>>, y_positions |-> <<>>])

\* the figure of create_indoor_layout: the room boundary and the markers
\* (spacing is a parameter the body never reads)
CreateIndoorLayout(area_length, area_width, num_lights, spacing) ==
    LET placed == GridPositions(area_length, area_width, num_lights)
    IN  [ title       |-> "Indoor Light Layout",
          boundary    |-> [x0 |-> 0, y0 |-> 0, x1 |-> area_length, y1 |-> area_width],
          num_lights  |-> num_lights,
          x_positions |-> placed.x_positions,
          y_positions |-> placed.y_positions ]

\* an outdoor generator that fills its grid across the width first
CreateOutdoorLayoutAcross(area_length, area_width, all_results, best_option) ==
    LET poles_needed == best_option.num_lights
        placed == GridPositions(area_width, area_length, poles_needed)
    IN  [ title           |-> "Outdoor Lighting Layout",
          boundary        |-> [x0 |-> 0, y0 |-> 0, x1 |-> area_length, y1 |-> area_width],
          num_lights      |-> poles_needed,
          mounting_height |-> best_option.mounting_height,
          beam_angle      |-> best_option.beam_angle,
          x_positions     |-> placed.y_positions,
          y_positions     |-> placed.x_positions ]

\* the figure of create_outdoor_layout: poles_needed = best_option['num_lights'];
\* mounting_height goes into the title and the hover text, beam_angle into the
\* radius of the coverage circles drawn around the poles
CreateOutdoorLayout(area_length, area_width, all_results, best_option) ==
    LET poles_needed == best_option.num_lights
        placed == GridPositions(area_length, area_width, poles_needed)
    IN  [ title           |-> "Outdoor Lighting Layout",
          boundary        |-> [x0 |-> 0, y0 |-> 0, x1 |-> area_length, y1 |-> area_width],
          num_lights      |-> poles_needed,
          mounting_height |-> best_option.mounting_height,
          beam_angle      |-> best_option.beam_angle,
          x_positions     |-> placed.x_positions,
          y_positions     |-> placed.y_positions ]

(***************************************************************************)
(* calculate_glare_index and calculate_light_pollution, and what main()    *)
(* does with them (lines 790-830).                                         *)
(***************************************************************************)
\* np.cos(np.radians(angle)) = 0.8660254037844(387) for the one angle main()
\* passes, in three limbs: 8660e-4 + 254e-7 + 37844e-13
CosDegrees(angle) ==
    CASE angle = 30 -> [e4 |-> 8660, e7 |-> 254, e13 |-> 37844]

\* glare = light_intensity * cos(angle) / distance^2, round(., 2), in
\* hundredths; distance in tenths of a metre:
\*   l * cos * 100 / (d10 / 10)^2 = l * (cos * 10^4) / d10^2
\* l * cos * 10^4 = units + (milli + micro / 10^6) / 1000, limb by limb
GlareIndex(light_intensity, distance, angle) ==
    LET cos    == CosDegrees(angle)
        low    == light_intensity * cos.e13
        middle == light_intensity * cos.e7 + low \div 1000000
        micro  == low % 1000000
        milli  == middle % 1000
        units  == light_intensity * cos.e4 + middle \div 1000
        d      == distance * distance
        q      == units \div d
        r      == units % d
        up     == \/ 2 * r > d
                  \/ 2 * r = d /\ (milli > 0 \/ micro > 0 \/ q % 2 = 1)
                  \/ 2 * r = d - 1 /\ (milli > 500 \/ (milli = 500 /\ micro > 0)
                                         \/ (milli = 500 /\ micro = 0 /\ q % 2 = 1))
    IN  IF up THEN q + 1 ELSE q

\* the thresholds taken inclusively: 10.0 still low, 20.0 still moderate
GlareStatusInclusive(glare_index) ==
    IF glare_index <= 1000 THEN "Low Glare"
    ELSE IF glare_index <= 2000 THEN "Moderate Glare"
    ELSE "High Glare"

\* lines 792-800: the class is read off the value calculate_glare_index returned
GlareStatus(glare_index) ==
    IF glare_index < 1000 THEN "Low Glare"
    ELSE IF glare_index < 2000 THEN "Moderate Glare"
    ELSE "High Glare"

\* upward_light_ratio = 0.05 = 7205759403792794 * 2^-57 (line 556)
UpwardLightRatio == [sig |-> <<6554, 13107, 26214, 204>>, exp |-> -57]

\* (total_lumens * upward_light_ratio) / (area * mounting_height) as binary64
\* evaluates it (line 557), for positive arguments
PollutionIndexFloat(total_lumens, area_m2, mounting_height) ==
    FloatDiv(FloatMul(FloatOf(total_lumens), UpwardLightRatio),
             FloatMul(AreaFloat(area_m2), HeightFloat(mounting_height)))

\* round(x, 2) of a Python float, in hundredths: the binary value of x is
\* rounded, ties to even
RoundHundredths(x) ==
    BigSmall(FloatRint([sig |-> BigMulSmall(x.sig, 100), exp |-> x.exp]))

\* 'index': round(light_pollution_index, 2) (line 567), in hundredths.  With
\* area in quarter square metres and the height in tenths of a metre the
\* index is 2 * total_lumens / (area4 * h10).  The float differs from the
\* quotient by a unit in the last place at most, which decides the rounding
\* only where the quotient lies midway between two hundredths.
PollutionIndex(total_lumens, area_m2, mounting_height) ==
    LET den == area_m2 * mounting_height
    IN  IF total_lumens > 0 /\ den > 0 /\ 2 * ((200 * total_lumens) % den) = den
        THEN RoundHundredths(PollutionIndexFloat(total_lumens, area_m2, mounting_height))
        ELSE RoundDiv(200 * total_lumens, den)

\* the risk read off the rounded index instead of light_pollution_index
PollutionRiskOfRounded(total_lumens, area_m2, mounting_height) ==
    IF PollutionIndex(total_lumens, area_m2, mounting_height) < 100 THEN "Low"
    ELSE IF PollutionIndex(total_lumens, area_m2, mounting_height) < 200 THEN "Medium"
    ELSE "High"

\* lines 559-564: the risk is read off the unrounded light_pollution_index,
\* 2 * total_lumens / (area4 * h10) against 1 and 2
PollutionRisk(total_lumens, area_m2, mounting_height) ==
    IF 2 * total_lumens < area_m2 * mounting_height THEN "Low"
    ELSE IF 2 * total_lumens < 2 * area_m2 * mounting_height THEN "Medium"
    ELSE "High"

\* calculate_light_pollution: the dict returned (lines 566-569)
CalculateLightPollution(total_lumens, area_m2, mounting_height) ==
    [ index |-> PollutionIndex(total_lumens, area_m2, mounting_height),
      risk  |-> PollutionRisk(total_lumens, area_m2, mounting_height) ]

\* the outdoor analysis of main() for best_option: glare (790-800), light
\* pollution with total_wattage * 100 as the lumens (807-811), uniformity
\* against the requirement (825-830)
OutdoorAnalysisOf(best_option, area_m2, uniformity_requirement) ==
    LET glare_index == GlareIndex(best_option.lumens, best_option.mounting_height, 30)
    IN  [ glare_index    |-> glare_index,
          glare_status   |-> GlareStatus(glare_index),
          pollution      |-> CalculateLightPollution(best_option.total_wattage * 100,
                                 area_m2, best_option.mounting_height),
          uniformity_met |-> best_option.uniformity >= uniformity_requirement ]

(***************************************************************************)
(* The inputs explored.  The widgets of main() give the ranges; the bounds *)
(* below cut them down.                                                    *)
(***************************************************************************)
\* st.number_input("Length (m)" / "Width (m)", min_value=1.0), in half metres
MinLength == 2

\* largest length and width explored, in half metres
MaxLength == 10

MaxWidth == 8

\* how many of the choices below are explored
NumLux == 2

NumHeights == 1

NumMaintenance == 2

NumUtilization == 1

Take(choices, n) == {choices[k] : k \in 1..Min(n, Len(choices))}

Lengths == MinLength..MaxLength

Widths == MinLength..MaxWidth

\* required_lux: values of INDOOR_STANDARDS / OUTDOOR_STANDARDS (or custom)
IndoorLuxChoices == <<150, 300, 75, 500, 1000>>

OutdoorLuxChoices == <<50, 20, 100, 300, 10>>

\* room_height: default 2.8 m, minimum 2.0 m, then 4.5 m
HeightChoices == <<28, 20, 45>>

\* sliders 0.5 .. 1.0 step 0.05, in twentieths; the defaults come first
IndoorMaintenanceChoices == <<16, 10, 20, 17>>

UtilizationChoices == <<14, 20, 10, 13>>

OutdoorMaintenanceChoices == <<14, 10, 20, 17>>

\* st.slider("Uniformity Requirement (Min/Avg)", 0.2, 0.8, 0.4, 0.05), in hundredths
DefaultUniformityRequirement == 40

\* st.slider("Operating Hours per Day", 1, 24, 12 if Outdoor else 10)
DefaultHoursIndoor == 10

DefaultHoursOutdoor == 12

\* st.slider("Operating Days per Year", 1, 365, 365)
DefaultDaysPerYear == 365

\* st.number_input("Electricity Cost (SGD/kWh)", value=0.25), in cents
DefaultCostPerKwh == 25

IndoorRequests ==
    { [ environment        |-> "Indoor",
        area_length        |-> l,
        area_width         |-> w,
        room_height        |-> h,
        required_lux       |-> lux,
        maintenance_factor |-> mf,
        utilization_factor |-> uf,
        hours_per_day      |-> DefaultHoursIndoor,
        days_per_year      |-> DefaultDaysPerYear,
        cost_per_kwh       |-> DefaultCostPerKwh ] :
      l \in Lengths, w \in Widths, h \in Take(HeightChoices, NumHeights),
      lux \in Take(IndoorLuxChoices, NumLux),
      mf \in Take(IndoorMaintenanceChoices, NumMaintenance),
      uf \in Take(UtilizationChoices, NumUtilization) }

\* area_type: the first area type of three categories of OUTDOOR_STANDARDS
AreaTypeChoices == <<"Linkway/Covered Walkway", "Park Path", "Basketball Court">>

NumAreaTypes == 1

OutdoorRequests ==
    { [ environment            |-> "Outdoor",
        area_length            |-> l,
        area_width             |-> w,
        required_lux           |-> lux,
        area_type              |-> at,
        maintenance_factor     |-> mf,
        uniformity_requirement |-> DefaultUniformityRequirement,
        hours_per_day          |-> DefaultHoursOutdoor,
        days_per_year          |-> DefaultDaysPerYear,
        cost_per_kwh           |-> DefaultCostPerKwh ] :
      l \in Lengths, w \in Widths,
      lux \in Take(OutdoorLuxChoices, NumLux),
      at \in Take(AreaTypeChoices, NumAreaTypes),
      mf \in Take(OutdoorMaintenanceChoices, NumMaintenance) }

NoRequest == [environment |-> "none"]

NoFigure == [title |-> "none"]

NoAnalysis == [glare_status |-> "none"]

NoCostData == [daily_consumption |-> 0, monthly_consumption |-> 0, yearly_consumption |-> 0,
               daily_cost |-> 0, monthly_cost |-> 0, yearly_cost |-> 0]

(***************************************************************************)
(* State                                                                   *)
(***************************************************************************)
VARIABLES
    INDOOR_LIGHTS,   \* module-level catalog dict
    OUTDOOR_LIGHTS,  \* module-level catalog dict
    pc,              \* where main() stands
    request,         \* the widget values of this run (or a direct call's arguments)
    results,         \* the list a calculator returned, as main() holds it
    area,            \* the area a calculator returned
    fig,             \* the layout figure
    cost_data,       \* the dict calculate_energy_cost returned for the best option
    analysis,        \* what the outdoor analysis of main() worked out
    earlier          \* history: an earlier call, its arguments and what it returned

vars == <<INDOOR_LIGHTS, OUTDOOR_LIGHTS, pc, request, results, area, fig, cost_data, analysis,
          earlier>>

\* age: how many calls were made since the remembered one (2 stands for more)
NoEarlier == [request |-> NoRequest, results |-> <<>>, cost_data |-> NoCostData, age |-> 0]

Aged(e) == IF e = NoEarlier THEN e ELSE [e EXCEPT !.age = Min(e.age + 1, 2)]

Init ==
    /\ INDOOR_LIGHTS = IndoorCatalog
    /\ OUTDOOR_LIGHTS = OutdoorCatalog
    /\ pc = "sidebar"
    /\ request = NoRequest
    /\ results = <<>>
    /\ area = 0
    /\ fig = NoFigure
    /\ cost_data = NoCostData
    /\ analysis = NoAnalysis
    /\ earlier = NoEarlier

(***************************************************************************)
(* The engine calls, as they act on the state of the caller                *)
(***************************************************************************)
\* results, area = calculate_indoor_lights(...): results is a fresh list
CalculateIndoorLightsKeepingBest(req) ==
    /\ results' = SortByKey(SubSeq(results, 1, Min(Len(results), 1)) \o
                      IndoorResults(INDOOR_LIGHTS, req.area_length, req.area_width,
                          req.room_height, req.required_lux,
                          req.maintenance_factor, req.utilization_factor))
    /\ area' = req.area_length * req.area_width
    /\ UNCHANGED <<INDOOR_LIGHTS, OUTDOOR_LIGHTS>>

\* a calculator that ranks the fixtures of the selected building type only
CalculateIndoorLightsOfBuilding(req) ==
    LET OfBuilding(entry) == entry.category = req.building_type
    IN  /\ results' = IndoorResults(SelectSeq(INDOOR_LIGHTS, OfBuilding),
                          req.area_length, req.area_width,
                          req.room_height, req.required_lux,
                          req.maintenance_factor, req.utilization_factor)
        /\ area' = req.area_length * req.area_width
        /\ UNCHANGED <<INDOOR_LIGHTS, OUTDOOR_LIGHTS>>

CalculateIndoorLights(req) ==
    /\ results' = IndoorResults(INDOOR_LIGHTS, req.area_length, req.area_width,
                      req.room_height, req.required_lux,
                      req.maintenance_factor, req.utilization_factor)
    /\ area' = req.area_length * req.area_width
    /\ UNCHANGED <<INDOOR_LIGHTS, OUTDOOR_LIGHTS>>

\* a calculator that keeps the fixtures within the pole height range of the
\* sidebar only
CalculateOutdoorLightsWithinPoles(req) ==
    LET WithinPoles(c) == /\ req.pole_height_min <= c.mounting_height
                          /\ c.mounting_height <= req.pole_height_max
    IN  /\ results' = SelectSeq(OutdoorResults(OUTDOOR_LIGHTS, req.area_length, req.area_width,
                                     req.required_lux, req.area_type,
                                     req.maintenance_factor, req.uniformity_requirement),
                                 WithinPoles)
        /\ area' = req.area_length * req.area_width
        /\ UNCHANGED <<INDOOR_LIGHTS, OUTDOOR_LIGHTS>>

\* results, area = calculate_outdoor_lights(...)
CalculateOutdoorLights(req) ==
    /\ results' = OutdoorResults(OUTDOOR_LIGHTS, req.area_length, req.area_width,
                      req.required_lux, req.area_type,
                      req.maintenance_factor, req.uniformity_requirement)
    /\ area' = req.area_length * req.area_width
    /\ UNCHANGED <<INDOOR_LIGHTS, OUTDOOR_LIGHTS>>

\* for result in results[:10]: result['daily_cost'] = f"${cost['daily_cost']}" ...
\* (lines 732-736): three keys are added to the first ten dicts of the list
WithEnergyCosts(result, req) ==
    LET cost == CalculateEnergyCost(result.total_wattage, req.hours_per_day,
                                    req.days_per_year, req.cost_per_kwh)
    IN  result @@ [ daily_cost   |-> cost.daily_cost,
                    monthly_cost |-> cost.monthly_cost,
                    yearly_cost  |-> cost.yearly_cost ]

(***************************************************************************)
(* main(): one run of the script after "Calculate Lighting Requirements"   *)
(***************************************************************************)
PressCalculateIndoor ==
    /\ pc = "sidebar"
    /\ \E req \in IndoorRequests :
          /\ request' = req
          /\ CalculateIndoorLights(req)
    /\ pc' = "calculated"
    /\ UNCHANGED <<fig, cost_data, earlier, analysis>>

PressCalculateOutdoor ==
    /\ pc = "sidebar"
    /\ \E req \in OutdoorRequests :
          /\ request' = req
          /\ CalculateOutdoorLights(req)
    /\ pc' = "calculated"
    /\ UNCHANGED <<fig, cost_data, earlier, analysis>>

AddEnergyCosts ==
    /\ pc = "calculated"
    /\ results' = [k \in 1..Len(results) |->
                      IF k <= 10 THEN WithEnergyCosts(results[k], request)
                      ELSE results[k]]
    /\ pc' = "costs_added"
    /\ UNCHANGED <<INDOOR_LIGHTS, OUTDOOR_LIGHTS, request, area, fig, cost_data, earlier, analysis>>

\* best_option = results[0]; fig = create_indoor_layout(...) (lines 742, 775)
LayoutIndoor ==
    /\ pc = "costs_added"
    /\ request.environment = "Indoor"
    /\ results # <<>>
    /\ fig' = CreateIndoorLayout(request.area_length, request.area_width,
                                 results[1].num_lights, results[1].spacing)
    /\ pc' = "layout_drawn"
    /\ UNCHANGED <<INDOOR_LIGHTS, OUTDOOR_LIGHTS, request, results, area, cost_data, earlier, analysis>>

\* fig = create_outdoor_layout(area_length, area_width, results, best_option)
LayoutOutdoor ==
    /\ pc = "costs_added"
    /\ request.environment = "Outdoor"
    /\ results # <<>>
    /\ fig' = CreateOutdoorLayout(request.area_length, request.area_width,
                                  results, results[1])
    /\ pc' = "layout_drawn"
    /\ UNCHANGED <<INDOOR_LIGHTS, OUTDOOR_LIGHTS, request, results, area, cost_data, earlier, analysis>>

\* if environment == "Outdoor": glare, light pollution, uniformity (782-830)
OutdoorAnalysis ==
    /\ pc = "layout_drawn"
    /\ request.environment = "Outdoor"
    /\ analysis' = OutdoorAnalysisOf(results[1], area, request.uniformity_requirement)
    /\ pc' = "analysed"
    /\ UNCHANGED <<INDOOR_LIGHTS, OUTDOOR_LIGHTS, request, results, area, fig, cost_data, earlier>>

\* cost_data = calculate_energy_cost(best_option['total_wattage'], ...) (line 835)
EnergyCostAnalysis ==
    /\ \/ pc = "layout_drawn" /\ request.environment = "Indoor"
       \/ pc = "analysed"
    /\ cost_data' = CalculateEnergyCost(results[1].total_wattage, request.hours_per_day,
                                        request.days_per_year, request.cost_per_kwh)
    /\ pc' = "cost_analysed"
    /\ UNCHANGED <<INDOOR_LIGHTS, OUTDOOR_LIGHTS, request, results, area, fig, earlier, analysis>>

\* Streamlit runs the script again from the top on the next interaction:
\* nothing of this run is kept
Rerun ==
    /\ pc = "cost_analysed"
    /\ pc' = "sidebar"
    /\ request' = NoRequest
    /\ results' = <<>>
    /\ area' = 0
    /\ fig' = NoFigure
    /\ cost_data' = NoCostData
    /\ analysis' = NoAnalysis
    /\ UNCHANGED <<INDOOR_LIGHTS, OUTDOOR_LIGHTS, earlier>>

Next ==
    \/ PressCalculateIndoor
    \/ PressCalculateOutdoor
    \/ AddEnergyCosts
    \/ LayoutIndoor
    \/ LayoutOutdoor
    \/ OutdoorAnalysis
    \/ EnergyCostAnalysis
    \/ Rerun

Spec == Init /\ [][Next]_vars

(***************************************************************************)
(* Repeated calls of the calculators in one process: the catalogs and the  *)
(* caller's list live on between the calls, and main()'s post-processing   *)
(* of the returned list may come in between.  earlier remembers one        *)
(* earlier call and what it returned.                                      *)
(***************************************************************************)
\* lengths of the repeated calls, in half metres; the width is the 4 m of the
\* worked example, everything else the widget default
RepeatLengthChoices == <<10, 7, 4, 20>>

NumRepeatLengths == 2

RepeatWidth == 8

RepeatIndoorRequests ==
    { [ environment        |-> "Indoor",
        area_length        |-> l,
        area_width         |-> RepeatWidth,
        room_height        |-> HeightChoices[1],
        required_lux       |-> lux,
        maintenance_factor |-> IndoorMaintenanceChoices[1],
        utilization_factor |-> UtilizationChoices[1],
        hours_per_day      |-> DefaultHoursIndoor,
        days_per_year      |-> DefaultDaysPerYear,
        cost_per_kwh       |-> DefaultCostPerKwh ] :
      l \in Take(RepeatLengthChoices, NumRepeatLengths),
      lux \in Take(IndoorLuxChoices, NumLux) }

RepeatOutdoorRequests ==
    { [ environment            |-> "Outdoor",
        area_length            |-> l,
        area_width             |-> RepeatWidth,
        required_lux           |-> lux,
        area_type              |-> AreaTypeChoices[1],
        maintenance_factor     |-> OutdoorMaintenanceChoices[1],
        uniformity_requirement |-> DefaultUniformityRequirement,
        hours_per_day          |-> DefaultHoursOutdoor,
        days_per_year          |-> DefaultDaysPerYear,
        cost_per_kwh           |-> DefaultCostPerKwh ] :
      l \in Take(RepeatLengthChoices, NumRepeatLengths),
      lux \in Take(OutdoorLuxChoices, NumLux) }

CallIndoor ==
    /\ \E req \in RepeatIndoorRequests :
          /\ request' = req
          /\ CalculateIndoorLights(req)
    /\ pc' = "calculated"
    /\ earlier' = Aged(earlier)
    /\ UNCHANGED <<fig, cost_data, analysis>>

CallOutdoor ==
    /\ \E req \in RepeatOutdoorRequests :
          /\ request' = req
          /\ CalculateOutdoorLights(req)
    /\ pc' = "calculated"
    /\ earlier' = Aged(earlier)
    /\ UNCHANGED <<fig, cost_data, analysis>>

\* history only: the call just made becomes the remembered one
Remember ==
    /\ pc \in {"calculated", "cost_analysed"}
    /\ earlier' = [request |-> request, results |-> results, cost_data |-> cost_data,
                   age |-> 0]
    /\ UNCHANGED <<INDOOR_LIGHTS, OUTDOOR_LIGHTS, pc, request, results, area, fig, cost_data, analysis>>

NextRepeat ==
    \/ CallIndoor
    \/ CallOutdoor
    \/ AddEnergyCosts
    \/ Remember

SpecRepeat == Init /\ [][NextRepeat]_vars

(***************************************************************************)
(* The outdoor flow of main() with the maintenance and uniformity sliders  *)
(* over their whole ranges                                                 *)
(***************************************************************************)
\* st.slider("Maintenance Factor (Outdoor)", 0.5, 1.0, 0.7, 0.05), in twentieths
MinMaintenance == 10

MaxMaintenance == 20

\* st.slider("Uniformity Requirement (Min/Avg)", 0.2, 0.8, 0.4, 0.05), in
\* steps of 0.05
MinRequirementStep == 4

MaxRequirementStep == 16

\* how many lengths (RepeatLengthChoices) and requirement settings are explored
NumSliderLengths == 2

NumRequirements == 3

\* the default, a setting between its neighbours 0.25 and 0.3, the top
RequirementChoices == <<40, 25, 30, 80, 20>>

SliderRequests ==
    { [ environment            |-> "Outdoor",
        area_length            |-> l,
        area_width             |-> RepeatWidth,
        required_lux           |-> lux,
        area_type              |-> AreaTypeChoices[1],
        maintenance_factor     |-> mf,
        uniformity_requirement |-> ur,
        hours_per_day          |-> DefaultHoursOutdoor,
        days_per_year          |-> DefaultDaysPerYear,
        cost_per_kwh           |-> DefaultCostPerKwh ] :
      l \in Take(RepeatLengthChoices, NumSliderLengths),
      lux \in Take(OutdoorLuxChoices, NumLux),
      mf \in MinMaintenance..MaxMaintenance,
      ur \in {r \in Take(RequirementChoices, NumRequirements) :
                 r \in {5 * k : k \in MinRequirementStep..MaxRequirementStep}} }

PressCalculateOutdoorSliders ==
    /\ pc = "sidebar"
    /\ \E req \in SliderRequests :
          /\ request' = req
          /\ CalculateOutdoorLights(req)
    /\ pc' = "calculated"
    /\ UNCHANGED <<fig, cost_data, earlier, analysis>>

NextSliders ==
    \/ PressCalculateOutdoorSliders
    \/ AddEnergyCosts
    \/ LayoutOutdoor
    \/ OutdoorAnalysis
    \/ EnergyCostAnalysis
    \/ Rerun

SpecSliders == Init /\ [][NextSliders]_vars

(***************************************************************************)
(* Direct calls of the layout generators, for any fixture count            *)
(***************************************************************************)
\* largest fixture count laid out
MaxLights == 12

\* spacing argument of create_indoor_layout, in centimetres
SpacingChoices == {100, 250}

\* (mounting_height, beam_angle) of the outdoor best_option: two catalog pairs
PoleChoices == { [mounting_height |-> 100, beam_angle |-> 45],
                 [mounting_height |-> 50, beam_angle |-> 180] }

CallIndoorLayout ==
    /\ pc = "sidebar"
    /\ \E l \in Lengths, w \in Widths, n \in 1..MaxLights, sp \in SpacingChoices :
          /\ request' = [environment |-> "Indoor", area_length |-> l, area_width |-> w,
                         num_lights |-> n, spacing |-> sp]
          /\ fig' = CreateIndoorLayout(l, w, n, sp)
    /\ pc' = "layout_drawn"
    /\ UNCHANGED <<INDOOR_LIGHTS, OUTDOOR_LIGHTS, results, area, cost_data, earlier, analysis>>

CallOutdoorLayout ==
    /\ pc = "sidebar"
    /\ \E l \in Lengths, w \in Widths, n \in 1..MaxLights, pole \in PoleChoices :
          LET best_option == [num_lights |-> n, mounting_height |-> pole.mounting_height,
                              beam_angle |-> pole.beam_angle]
          IN  /\ request' = [environment |-> "Outdoor", area_length |-> l, area_width |-> w,
                             best_option |-> best_option]
              /\ fig' = CreateOutdoorLayout(l, w, <<best_option>>, best_option)
    /\ pc' = "layout_drawn"
    /\ UNCHANGED <<INDOOR_LIGHTS, OUTDOOR_LIGHTS, results, area, cost_data, earlier, analysis>>

\* the figure is handed over and the next call starts afresh
LayoutReturn ==
    /\ pc = "layout_drawn"
    /\ pc' = "sidebar"
    /\ request' = NoRequest
    /\ fig' = NoFigure
    /\ UNCHANGED <<INDOOR_LIGHTS, OUTDOOR_LIGHTS, results, area, cost_data, earlier, analysis>>

NextLayout ==
    \/ CallIndoorLayout
    \/ CallOutdoorLayout
    \/ LayoutReturn

SpecLayout == Init /\ [][NextLayout]_vars

(***************************************************************************)
(* Both layout generators called for the same area and fixture count:      *)
(* create_indoor_layout first, then create_outdoor_layout for a            *)
(* best_option with that num_lights.  earlier remembers the indoor call    *)
(* and its figure.                                                         *)
(***************************************************************************)
CallOutdoorLayoutSame ==
    /\ pc = "layout_drawn"
    /\ request.environment = "Indoor"
    /\ earlier = NoEarlier
    /\ \E pole \in PoleChoices :
          LET best_option == [num_lights |-> request.num_lights,
                              mounting_height |-> pole.mounting_height,
                              beam_angle |-> pole.beam_angle]
          IN  /\ request' = [environment |-> "Outdoor", area_length |-> request.area_length,
                             area_width |-> request.area_width, best_option |-> best_option]
              /\ fig' = CreateOutdoorLayout(request.area_length, request.area_width,
                                            <<best_option>>, best_option)
    /\ earlier' = [request |-> request, results |-> results, cost_data |-> cost_data,
                   age |-> 0, fig |-> fig]
    /\ UNCHANGED <<INDOOR_LIGHTS, OUTDOOR_LIGHTS, pc, results, area, cost_data, analysis>>

\* both figures are handed over and the next pair of calls starts afresh
BothLayoutsReturn ==
    /\ pc = "layout_drawn"
    /\ earlier # NoEarlier
    /\ pc' = "sidebar"
    /\ request' = NoRequest
    /\ fig' = NoFigure
    /\ earlier' = NoEarlier
    /\ UNCHANGED <<INDOOR_LIGHTS, OUTDOOR_LIGHTS, results, area, cost_data, analysis>>

NextBothLayouts ==
    \/ CallIndoorLayout
    \/ CallOutdoorLayoutSame
    \/ BothLayoutsReturn

SpecBothLayouts == Init /\ [][NextBothLayouts]_vars

(***************************************************************************)
(* The glare assessment of main() (lines 790-800) for a best_option of any *)
(* lumens and mounting height: calculate_glare_index on its two fields,    *)
(* then the class.  The catalog fixtures all come out far above 20.        *)
(***************************************************************************)
\* best_option['lumens']
MinGlareLumens == 4560

MaxGlareLumens == 4680

\* best_option['mounting_height'], tenths of a metre
GlareHeightChoices == {200, 141}

\* area (quarter square metres) of the request assessed
GlareArea == 80

GlareOptions ==
    { [ lumens          |-> l,
        mounting_height |-> h,
        total_wattage   |-> l \div 100,
        uniformity      |-> 35 ] : l \in MinGlareLumens..MaxGlareLumens, h \in GlareHeightChoices }

AssessGlare ==
    /\ pc = "sidebar"
    /\ \E best_option \in GlareOptions :
          /\ request' = [environment |-> "Outdoor", best_option |-> best_option,
                         uniformity_requirement |-> DefaultUniformityRequirement]
          /\ analysis' = OutdoorAnalysisOf(best_option, GlareArea, DefaultUniformityRequirement)
    /\ pc' = "analysed"
    /\ UNCHANGED <<INDOOR_LIGHTS, OUTDOOR_LIGHTS, results, area, fig, cost_data, earlier>>

\* the assessment is shown and the next one starts afresh
GlareReturn ==
    /\ pc = "analysed"
    /\ pc' = "sidebar"
    /\ request' = NoRequest
    /\ analysis' = NoAnalysis
    /\ UNCHANGED <<INDOOR_LIGHTS, OUTDOOR_LIGHTS, results, area, fig, cost_data, earlier>>

NextGlare ==
    \/ AssessGlare
    \/ GlareReturn

SpecGlare == Init /\ [][NextGlare]_vars

(***************************************************************************)
(* The outdoor flow of main() for long and narrow areas, where the light   *)
(* pollution of the recommended candidate comes out in all three classes   *)
(* and on their borders.                                                   *)
(***************************************************************************)
\* how many of the choices below are explored
NumPollutionLengths == 6

NumPollutionWidths == 5

\* the largest area explored, in quarter square metres
MaxPollutionArea == 250

\* area_length and area_width, in half metres
PollutionLengthChoices == <<3, 5, 6, 25, 4, 12>>

PollutionWidthChoices == <<67, 20, 40, 2, 8>>

\* maintenance_factor: the default and the lowest setting of the slider
PollutionMaintenanceChoices == {14, 10}

PollutionRequests ==
    { [ environment            |-> "Outdoor",
        area_length            |-> lw[1],
        area_width             |-> lw[2],
        required_lux           |-> lux,
        area_type              |-> AreaTypeChoices[1],
        maintenance_factor     |-> mf,
        uniformity_requirement |-> DefaultUniformityRequirement,
        hours_per_day          |-> DefaultHoursOutdoor,
        days_per_year          |-> DefaultDaysPerYear,
        cost_per_kwh           |-> DefaultCostPerKwh ] :
      lw \in {p \in Take(PollutionLengthChoices, NumPollutionLengths) \X
                     Take(PollutionWidthChoices, NumPollutionWidths) :
                 p[1] * p[2] <= MaxPollutionArea},
      lux \in Take(OutdoorLuxChoices, NumLux),
      mf \in PollutionMaintenanceChoices }

PressCalculateOutdoorPollution ==
    /\ pc = "sidebar"
    /\ \E req \in PollutionRequests :
          /\ request' = req
          /\ CalculateOutdoorLights(req)
    /\ pc' = "calculated"
    /\ UNCHANGED <<fig, cost_data, earlier, analysis>>

NextPollution ==
    \/ PressCalculateOutdoorPollution
    \/ AddEnergyCosts
    \/ LayoutOutdoor
    \/ OutdoorAnalysis
    \/ EnergyCostAnalysis
    \/ Rerun

SpecPollution == Init /\ [][NextPollution]_vars

(***************************************************************************)
(* Two outdoor runs of main() that differ in the inputs the calculator     *)
(* does not read: the area type, the uniformity requirement (passed, not   *)
(* read in the body) and the pole height range (lines 645-646, never       *)
(* passed).  earlier remembers the first run.                              *)
(***************************************************************************)
\* how many area types and pole height ranges are explored
NumIgnoredAreaTypes == 2

NumPoleRanges == 2

\* pole_height_min and pole_height_max, in tenths of a metre; the defaults
\* 4.0 and 8.0 come first
PoleRangeChoices == <<[min |-> 40, max |-> 80], [min |-> 20, max |-> 300], [min |-> 100, max |-> 120]>>

\* the values of the inputs that do not reach the body of the calculator
IgnoredInputs ==
    { [ area_type              |-> at,
        uniformity_requirement |-> ur,
        pole_height_min        |-> pole.min,
        pole_height_max        |-> pole.max ] :
      at \in Take(AreaTypeChoices, NumIgnoredAreaTypes),
      ur \in Take(RequirementChoices, NumRequirements),
      pole \in Take(PoleRangeChoices, NumPoleRanges) }

IgnoredRequests ==
    { [ environment        |-> "Outdoor",
        area_length        |-> l,
        area_width         |-> RepeatWidth,
        required_lux       |-> OutdoorLuxChoices[1],
        maintenance_factor |-> OutdoorMaintenanceChoices[1],
        hours_per_day      |-> DefaultHoursOutdoor,
        days_per_year      |-> DefaultDaysPerYear,
        cost_per_kwh       |-> DefaultCostPerKwh ] @@ ignored :
      l \in Take(RepeatLengthChoices, NumRepeatLengths),
      ignored \in IgnoredInputs }

\* the first run
PressCalculateOutdoorFirst ==
    /\ pc = "sidebar"
    /\ \E req \in IgnoredRequests :
          /\ request' = req
          /\ CalculateOutdoorLights(req)
    /\ pc' = "calculated"
    /\ earlier' = NoEarlier
    /\ UNCHANGED <<fig, cost_data, analysis>>

\* the user changes the area type, the uniformity slider or the pole heights
\* (custom lux kept) and presses the button again
PressCalculateOutdoorChanged ==
    /\ pc = "calculated"
    /\ earlier = NoEarlier
    /\ \E ignored \in IgnoredInputs :
          /\ request' = ignored @@ request
          /\ CalculateOutdoorLights(ignored @@ request)
    /\ earlier' = [request |-> request, results |-> results, cost_data |-> cost_data,
                   age |-> 0]
    /\ UNCHANGED <<pc, fig, cost_data, analysis>>

\* the next pair of runs starts afresh
ChangedReturn ==
    /\ pc = "calculated"
    /\ earlier # NoEarlier
    /\ pc' = "sidebar"
    /\ request' = NoRequest
    /\ results' = <<>>
    /\ area' = 0
    /\ earlier' = NoEarlier
    /\ UNCHANGED <<INDOOR_LIGHTS, OUTDOOR_LIGHTS, fig, cost_data, analysis>>

NextIgnored ==
    \/ PressCalculateOutdoorFirst
    \/ PressCalculateOutdoorChanged
    \/ ChangedReturn

SpecIgnored == Init /\ [][NextIgnored]_vars

(***************************************************************************)
(* Two indoor runs of main() for different rooms: the building type and    *)
(* the room type select standard_lux (line 603), which is required_lux     *)
(* unless a custom value is entered (lines 649-656); the calculator is     *)
(* called without them (lines 679-683).  earlier remembers the first run.  *)
(***************************************************************************)
\* how many of the rooms below are explored
NumRooms == 6

\* entries of INDOOR_STANDARDS
RoomChoices ==
    << [building_type |-> "Residential", room_type |-> "Kitchen",          standard_lux |-> 300],
       [building_type |-> "Office",      room_type |-> "Reception",        standard_lux |-> 300],
       [building_type |-> "Residential", room_type |-> "Living Room",      standard_lux |-> 150],
       [building_type |-> "Office",      room_type |-> "Private Office",   standard_lux |-> 500],
       [building_type |-> "Healthcare",  room_type |-> "Examination Room", standard_lux |-> 500],
       [building_type |-> "Industrial",  room_type |-> "Warehouse",        standard_lux |-> 150],
       [building_type |-> "Commercial",  room_type |-> "Supermarket",      standard_lux |-> 750] >>

\* the sidebar values that follow from the room selected
RoomInputs(room) ==
    [ building_type |-> room.building_type,
      room_type     |-> room.room_type,
      required_lux  |-> room.standard_lux ]

RoomRequests ==
    { [ environment        |-> "Indoor",
        area_length        |-> l,
        area_width         |-> RepeatWidth,
        room_height        |-> HeightChoices[1],
        maintenance_factor |-> mf,
        utilization_factor |-> UtilizationChoices[1],
        hours_per_day      |-> DefaultHoursIndoor,
        days_per_year      |-> DefaultDaysPerYear,
        cost_per_kwh       |-> DefaultCostPerKwh ] @@ RoomInputs(room) :
      l \in Take(RepeatLengthChoices, NumRepeatLengths),
      mf \in Take(IndoorMaintenanceChoices, NumMaintenance),
      room \in Take(RoomChoices, NumRooms) }

\* the first run
PressCalculateRoom ==
    /\ pc = "sidebar"
    /\ \E req \in RoomRequests :
          /\ request' = req
          /\ CalculateIndoorLights(req)
    /\ pc' = "calculated"
    /\ earlier' = NoEarlier
    /\ UNCHANGED <<fig, cost_data, analysis>>

\* the user selects another room and presses the button again
PressCalculateOtherRoom ==
    /\ pc = "calculated"
    /\ earlier = NoEarlier
    /\ \E room \in Take(RoomChoices, NumRooms) :
          /\ request' = RoomInputs(room) @@ request
          /\ CalculateIndoorLights(RoomInputs(room) @@ request)
    /\ earlier' = [request |-> request, results |-> results, cost_data |-> cost_data,
                   age |-> 0]
    /\ UNCHANGED <<pc, fig, cost_data, analysis>>

NextRooms ==
    \/ PressCalculateRoom
    \/ PressCalculateOtherRoom
    \/ ChangedReturn

SpecRooms == Init /\ [][NextRooms]_vars

(***************************************************************************)
(* Direct calls of calculate_energy_cost; earlier remembers one earlier    *)
(* call.                                                                   *)
(***************************************************************************)
\* total_wattage (W), hours_per_day, days_per_year, cost_per_kwh (cents)
WattageChoices == <<12, 60, 450, 9, 100>>

HoursChoices == <<12, 10, 1, 24>>

DaysChoices == <<365, 250, 1, 360>>

CostChoices == <<25, 33, 10, 100>>

NumWattages == 2

NumHours == 2

NumDays == 2

NumCosts == 2

CallEnergyCost ==
    /\ \E w \in Take(WattageChoices, NumWattages), h \in Take(HoursChoices, NumHours),
          d \in Take(DaysChoices, NumDays), c \in Take(CostChoices, NumCosts) :
          /\ request' = [environment |-> "none", total_wattage |-> w, hours_per_day |-> h,
                         days_per_year |-> d, cost_per_kwh |-> c]
          /\ cost_data' = CalculateEnergyCost(w, h, d, c)
    /\ pc' = "cost_analysed"
    /\ earlier' = Aged(earlier)
    /\ UNCHANGED <<INDOOR_LIGHTS, OUTDOOR_LIGHTS, results, area, fig, analysis>>

NextEnergy ==
    \/ CallEnergyCost
    \/ Remember

SpecEnergy == Init /\ [][NextEnergy]_vars

(***************************************************************************)
(* Direct calls of the calculators with arguments the widgets of main()    *)
(* would not let through: the functions are entered as they are, there is  *)
(* no check before line 272 / 314.  With maintenance_factor *               *)
(* utilization_factor = 0 the division of line 273 / 318 is a division of  *)
(* Python floats and raises ZeroDivisionError; every later division has an *)
(* np.float64 operand and yields inf or nan instead of raising.            *)
(***************************************************************************)
\* lengths and widths in half metres, factors in twentieths
UncheckedLengths == {-4, 0, 10}

UncheckedWidths == {0, 8}

UncheckedLux == {0, 150}

UncheckedFactors == {0, 14, 24}

UncheckedIndoorRequests ==
    { [ environment        |-> "Indoor",
        area_length        |-> l,
        area_width         |-> w,
        room_height        |-> HeightChoices[1],
        required_lux       |-> lux,
        maintenance_factor |-> mf,
        utilization_factor |-> uf,
        hours_per_day      |-> DefaultHoursIndoor,
        days_per_year      |-> DefaultDaysPerYear,
        cost_per_kwh       |-> DefaultCostPerKwh ] :
      l \in UncheckedLengths, w \in UncheckedWidths, lux \in UncheckedLux,
      mf \in UncheckedFactors, uf \in UncheckedFactors }

UncheckedOutdoorRequests ==
    { [ environment            |-> "Outdoor",
        area_length            |-> l,
        area_width             |-> w,
        required_lux           |-> lux,
        area_type              |-> AreaTypeChoices[1],
        maintenance_factor     |-> mf,
        uniformity_requirement |-> DefaultUniformityRequirement,
        hours_per_day          |-> DefaultHoursOutdoor,
        days_per_year          |-> DefaultDaysPerYear,
        cost_per_kwh           |-> DefaultCostPerKwh ] :
      l \in UncheckedLengths, w \in UncheckedWidths, lux \in UncheckedLux,
      mf \in UncheckedFactors }

CallIndoorUnchecked ==
    /\ pc = "sidebar"
    /\ \E req \in UncheckedIndoorRequests :
          /\ request' = req
          /\ IF req.maintenance_factor * req.utilization_factor = 0
             THEN /\ pc' = "ZeroDivisionError"
                  /\ UNCHANGED <<INDOOR_LIGHTS, OUTDOOR_LIGHTS, results, area>>
             ELSE /\ pc' = "calculated"
                  /\ CalculateIndoorLights(req)
    /\ UNCHANGED <<fig, cost_data, earlier, analysis>>

CallOutdoorUnchecked ==
    /\ pc = "sidebar"
    /\ \E req \in UncheckedOutdoorRequests :
          /\ request' = req
          /\ IF req.maintenance_factor * OutdoorUtilizationFactor = 0
             THEN /\ pc' = "ZeroDivisionError"
                  /\ UNCHANGED <<INDOOR_LIGHTS, OUTDOOR_LIGHTS, results, area>>
             ELSE /\ pc' = "calculated"
                  /\ CalculateOutdoorLights(req)
    /\ UNCHANGED <<fig, cost_data, earlier, analysis>>

\* the call is over (list returned or exception propagated); the next call
\* starts afresh
CallOver ==
    /\ pc \in {"calculated", "ZeroDivisionError"}
    /\ pc' = "sidebar"
    /\ request' = NoRequest
    /\ results' = <<>>
    /\ area' = 0
    /\ UNCHANGED <<INDOOR_LIGHTS, OUTDOOR_LIGHTS, fig, cost_data, earlier, analysis>>

NextUnchecked ==
    \/ CallIndoorUnchecked
    \/ CallOutdoorUnchecked
    \/ CallOver

SpecUnchecked == Init /\ [][NextUnchecked]_vars

(***************************************************************************)
(* The script run over other registrations of the catalogs: the module's   *)
(* own, one with every category's list empty, and one with no category.    *)
(* The calculators loop over whatever the dict holds; an empty loop leaves *)
(* results = [] and the sort and the return go through.  main() then       *)
(* builds pd.DataFrame([]) (line 728), which has no columns, and           *)
(* df[display_cols] (line 738) raises KeyError.                            *)
(***************************************************************************)
Registrations(catalog) ==
    { catalog,
      [c \in 1..Len(catalog) |-> [category |-> catalog[c].category, lights |-> <<>>]],
      <<>> }

InitRegistered ==
    /\ INDOOR_LIGHTS \in Registrations(IndoorCatalog)
    /\ OUTDOOR_LIGHTS \in Registrations(OutdoorCatalog)
    /\ pc = "sidebar"
    /\ request = NoRequest
    /\ results = <<>>
    /\ area = 0
    /\ fig = NoFigure
    /\ cost_data = NoCostData
    /\ analysis = NoAnalysis
    /\ earlier = NoEarlier

PressCalculateIndoorRegistered ==
    /\ pc = "sidebar"
    /\ \E req \in RepeatIndoorRequests :
          /\ request' = req
          /\ CalculateIndoorLights(req)
    /\ pc' = "calculated"
    /\ UNCHANGED <<fig, cost_data, earlier, analysis>>

PressCalculateOutdoorRegistered ==
    /\ pc = "sidebar"
    /\ \E req \in RepeatOutdoorRequests :
          /\ request' = req
          /\ CalculateOutdoorLights(req)
    /\ pc' = "calculated"
    /\ UNCHANGED <<fig, cost_data, earlier, analysis>>

\* st.dataframe(df[display_cols], ...) (line 738) on an empty list
EmptyTableKeyError ==
    /\ pc = "costs_added"
    /\ results = <<>>
    /\ pc' = "KeyError"
    /\ UNCHANGED <<INDOOR_LIGHTS, OUTDOOR_LIGHTS, request, results, area, fig, cost_data, earlier, analysis>>

\* the run that ended in the exception is followed by the next run
RerunAfterError ==
    /\ pc = "KeyError"
    /\ pc' = "sidebar"
    /\ request' = NoRequest
    /\ UNCHANGED <<INDOOR_LIGHTS, OUTDOOR_LIGHTS, results, area, fig, cost_data, earlier, analysis>>

NextRegistered ==
    \/ PressCalculateIndoorRegistered
    \/ PressCalculateOutdoorRegistered
    \/ AddEnergyCosts
    \/ EmptyTableKeyError
    \/ RerunAfterError
    \/ LayoutIndoor
    \/ LayoutOutdoor
    \/ OutdoorAnalysis
    \/ EnergyCostAnalysis
    \/ Rerun

SpecRegistered == InitRegistered /\ [][NextRegistered]_vars

(***************************************************************************)
(* Concurrent requests.  A Streamlit server runs every session's script in *)
(* a thread of one process: the sessions share the module-level catalogs   *)
(* and nothing else; everything a call works on is local to it.  In this   *)
(* specification each per-run variable holds one value per session, and a  *)
(* calculator advances one category of its outer loop at a time, reading   *)
(* the shared catalog at each step, so that the calls interleave.          *)
(***************************************************************************)
Sessions == {1, 2}

\* the arguments of a session's request: the widget defaults, one target
ConcurrentRequests ==
    { req \in RepeatIndoorRequests : req.required_lux = IndoorLuxChoices[1] }
        \cup { req \in RepeatOutdoorRequests : req.required_lux = OutdoorLuxChoices[1] }

Idle == [at |-> "idle", category |-> 0]

InitConcurrent ==
    /\ INDOOR_LIGHTS = IndoorCatalog
    /\ OUTDOOR_LIGHTS = OutdoorCatalog
    /\ pc = [s \in Sessions |-> Idle]
    /\ request = [s \in Sessions |-> NoRequest]
    /\ results = [s \in Sessions |-> <<>>]
    /\ area = [s \in Sessions |-> 0]
    /\ fig = [s \in Sessions |-> NoFigure]
    /\ cost_data = [s \in Sessions |-> NoCostData]
    /\ analysis = [s \in Sessions |-> NoAnalysis]
    /\ earlier = NoEarlier

\* the catalog the calculator of session s loops over
SessionCatalog(s) ==
    IF request[s].environment = "Indoor" THEN INDOOR_LIGHTS ELSE OUTDOOR_LIGHTS

\* the inner loop: the dicts appended for the lights of one category
CandidatesOfCategory(req, entry) ==
    [k \in 1..Len(entry.lights) |->
        IF req.environment = "Indoor"
        THEN IndoorCandidate(entry.category, entry.lights[k],
                 req.area_length * req.area_width, req.room_height, req.required_lux,
                 req.maintenance_factor, req.utilization_factor)
        ELSE OutdoorCandidate(entry.category, entry.lights[k],
                 req.area_length * req.area_width, req.required_lux,
                 req.maintenance_factor)]

\* the call is entered: area, total_lumens_required, results = []
EnterCalculator(s) ==
    /\ pc[s].at = "idle"
    /\ \E req \in ConcurrentRequests :
          /\ request' = [request EXCEPT ![s] = req]
          /\ area' = [area EXCEPT ![s] = req.area_length * req.area_width]
    /\ results' = [results EXCEPT ![s] = <<>>]
    /\ pc' = [pc EXCEPT ![s] = [at |-> "loop", category |-> 1]]
    /\ UNCHANGED <<INDOOR_LIGHTS, OUTDOOR_LIGHTS, fig, cost_data, analysis, earlier>>

\* one pass of "for category, lights in ...LIGHTS.items()"
CategoryStepConsuming(s) ==
    LET c == pc[s].category
        emptied(catalog) == [catalog EXCEPT ![c].lights = <<>>]
    IN  /\ pc[s].at = "loop"
        /\ c <= Len(SessionCatalog(s))
        /\ results' = [results EXCEPT ![s] =
                            @ \o CandidatesOfCategory(request[s], SessionCatalog(s)[c])]
        /\ pc' = [pc EXCEPT ![s].category = c + 1]
        /\ IF request[s].environment = "Indoor"
           THEN INDOOR_LIGHTS' = emptied(INDOOR_LIGHTS) /\ UNCHANGED OUTDOOR_LIGHTS
           ELSE OUTDOOR_LIGHTS' = emptied(OUTDOOR_LIGHTS) /\ UNCHANGED INDOOR_LIGHTS
        /\ UNCHANGED <<request, area, fig, cost_data, analysis, earlier>>

CategoryStep(s) ==
    LET c == pc[s].category
    IN  /\ pc[s].at = "loop"
        /\ c <= Len(SessionCatalog(s))
        /\ results' = [results EXCEPT ![s] =
                            @ \o CandidatesOfCategory(request[s], SessionCatalog(s)[c])]
        /\ pc' = [pc EXCEPT ![s].category = c + 1]
        /\ UNCHANGED <<INDOOR_LIGHTS, OUTDOOR_LIGHTS, request, area, fig, cost_data,
                       analysis, earlier>>

\* results.sort(...); return results, area
SortAndReturn(s) ==
    /\ pc[s].at = "loop"
    /\ pc[s].category > Len(SessionCatalog(s))
    /\ results' = [results EXCEPT ![s] = SortByKey(@)]
    /\ pc' = [pc EXCEPT ![s] = [at |-> "returned", category |-> 0]]
    /\ UNCHANGED <<INDOOR_LIGHTS, OUTDOOR_LIGHTS, request, area, fig, cost_data, analysis,
                   earlier>>

\* calculate_energy_cost for the session's best option
SessionEnergyCost(s) ==
    /\ pc[s].at = "returned"
    /\ cost_data' = [cost_data EXCEPT ![s] =
                         CalculateEnergyCost(results[s][1].total_wattage,
                             request[s].hours_per_day, request[s].days_per_year,
                             request[s].cost_per_kwh)]
    /\ pc' = [pc EXCEPT ![s].at = "costed"]
    /\ UNCHANGED <<INDOOR_LIGHTS, OUTDOOR_LIGHTS, request, results, area, fig, analysis,
                   earlier>>

\* create_indoor_layout / create_outdoor_layout for the session's best option
SessionLayout(s) ==
    /\ pc[s].at = "costed"
    /\ fig' = [fig EXCEPT ![s] =
                   IF request[s].environment = "Indoor"
                   THEN CreateIndoorLayout(request[s].area_length, request[s].area_width,
                            results[s][1].num_lights, results[s][1].spacing)
                   ELSE CreateOutdoorLayout(request[s].area_length, request[s].area_width,
                            results[s], results[s][1])]
    /\ pc' = [pc EXCEPT ![s].at = "drawn"]
    /\ UNCHANGED <<INDOOR_LIGHTS, OUTDOOR_LIGHTS, request, results, area, cost_data, analysis,
                   earlier>>

\* calculate_glare_index and calculate_light_pollution for an outdoor session
SessionAnalysis(s) ==
    /\ pc[s].at = "drawn"
    /\ request[s].environment = "Outdoor"
    /\ analysis' = [analysis EXCEPT ![s] =
                        OutdoorAnalysisOf(results[s][1], area[s],
                                          request[s].uniformity_requirement)]
    /\ pc' = [pc EXCEPT ![s].at = "analysed"]
    /\ UNCHANGED <<INDOOR_LIGHTS, OUTDOOR_LIGHTS, request, results, area, fig, cost_data,
                   earlier>>

\* the session's request is served; its locals are gone
SessionDone(s) ==
    /\ \/ pc[s].at = "drawn" /\ request[s].environment = "Indoor"
       \/ pc[s].at = "analysed"
    /\ pc' = [pc EXCEPT ![s] = Idle]
    /\ request' = [request EXCEPT ![s] = NoRequest]
    /\ results' = [results EXCEPT ![s] = <<>>]
    /\ area' = [area EXCEPT ![s] = 0]
    /\ fig' = [fig EXCEPT ![s] = NoFigure]
    /\ cost_data' = [cost_data EXCEPT ![s] = NoCostData]
    /\ analysis' = [analysis EXCEPT ![s] = NoAnalysis]
    /\ UNCHANGED <<INDOOR_LIGHTS, OUTDOOR_LIGHTS, earlier>>

NextConcurrent ==
    \E s \in Sessions :
        \/ EnterCalculator(s)
        \/ CategoryStep(s)
        \/ SortAndReturn(s)
        \/ SessionEnergyCost(s)
        \/ SessionLayout(s)
        \/ SessionAnalysis(s)
        \/ SessionDone(s)

SpecConcurrent == InitConcurrent /\ [][NextConcurrent]_vars

(***************************************************************************)
(* Properties                                                              *)
(***************************************************************************)
\* the catalog the calculator of this request reads
RequestCatalog ==
    IF request.environment = "Indoor" THEN INDOOR_LIGHTS ELSE OUTDOOR_LIGHTS

Calculated == pc \in {"calculated", "costs_added", "layout_drawn", "analysed", "cost_analysed"}

\* candidate c was computed from the catalog entry item = (category, light)
FromFixture(c, item) ==
    /\ c.category = item.category
    /\ c.light_type = item.light.type
    /\ c.wattage = item.light.wattage
    /\ c.lumens = item.light.lumens
    /\ c.cri = item.light.cri
    /\ c.color_temp = item.light.color_temp
    /\ c.ip_rating = item.light.ip_rating
    /\ c.beam_angle = item.light.beam_angle
    /\ c.environment = "Outdoor" => c.mounting_height = item.light.mounting_height

\* candidates c and d were computed from the same catalog entry
SameFixture(c, d) ==
    /\ c.environment = d.environment
    /\ c.category = d.category
    /\ c.light_type = d.light_type
    /\ c.wattage = d.wattage
    /\ c.lumens = d.lumens
    /\ c.cri = d.cri
    /\ c.color_temp = d.color_temp
    /\ c.ip_rating = d.ip_rating
    /\ c.beam_angle = d.beam_angle
    /\ c.environment = "Outdoor" => c.mounting_height = d.mounting_height

\* C1: every candidate a calculator returns, indoor or outdoor, has
\* num_lights >= 1 and a reported actual_lux (one decimal) that is not below
\* the requested illuminance.
C1_CountAndIlluminance ==
    Calculated =>
        \A k \in 1..Len(results) :
            /\ results[k].num_lights >= 1
            /\ results[k].actual_lux >= 10 * request.required_lux

\* C1 witness: an outdoor calculation returned a candidate that needs several
\* fixtures and meets the requested illuminance exactly, and one that exceeds it.
C1_Witness ==
    /\ pc = "calculated"
    /\ request.environment = "Outdoor"
    /\ \E k \in 1..Len(results) :
          /\ results[k].num_lights > 1
          /\ results[k].actual_lux = 10 * request.required_lux
    /\ \E k \in 1..Len(results) : results[k].actual_lux > 10 * request.required_lux

C3_OnePerFixtureSorted ==
    Calculated =>
        LET items == CatalogLoop(RequestCatalog, 1)
        IN  /\ Len(results) = Len(items)
            /\ \A i \in 1..Len(items) :
                  Cardinality({k \in 1..Len(results) : FromFixture(results[k], items[i])}) = 1
            /\ \A k \in 1..(Len(results) - 1) :
                  \/ results[k].num_lights < results[k + 1].num_lights
                  \/ /\ results[k].num_lights = results[k + 1].num_lights
                     /\ results[k].total_wattage <= results[k + 1].total_wattage
            /\ \A k \in 1..Len(results) :
                  /\ results[1].num_lights <= results[k].num_lights
                  /\ results[k].num_lights = results[1].num_lights =>
                        results[1].total_wattage <= results[k].total_wattage

\* C3 witness: a returned list in which both sort keys decide: two neighbours
\* differ in num_lights, two others agree on it and differ in total_wattage,
\* and catalog order was not the result order.
C3_Witness ==
    /\ pc = "calculated"
    /\ \E k \in 1..(Len(results) - 1) : results[k].num_lights < results[k + 1].num_lights
    /\ \E k \in 1..(Len(results) - 1) :
          /\ results[k].num_lights = results[k + 1].num_lights
          /\ results[k].total_wattage < results[k + 1].total_wattage
    /\ ~FromFixture(results[1], CatalogLoop(RequestCatalog, 1)[1])

\* position of a candidate's fixture in the catalog enumeration
CatalogIndex(c) ==
    LET items == CatalogLoop(RequestCatalog, 1)
    IN  CHOOSE i \in 1..Len(items) : FromFixture(c, items[i])

\* C4: two candidates with equal num_lights and equal total_wattage stand in
\* catalog enumeration order (category order, then position in the category).
C4_TiesInCatalogOrder ==
    Calculated =>
        \A i, j \in 1..Len(results) :
            ( /\ i < j
              /\ results[i].num_lights = results[j].num_lights
              /\ results[i].total_wattage = results[j].total_wattage ) =>
                CatalogIndex(results[i]) < CatalogIndex(results[j])

\* C4 witness: the three 18 W / 1800 lm panels tie and stand as Office,
\* Educational, Healthcare.
C4_Witness ==
    /\ pc = "calculated"
    /\ \E k \in 1..(Len(results) - 2) :
          /\ results[k].lumens = 1800 /\ results[k].category = "Office"
          /\ results[k + 1].lumens = 1800 /\ results[k + 1].category = "Educational"
          /\ results[k + 2].lumens = 1800 /\ results[k + 2].category = "Healthcare"
          /\ results[k].num_lights = results[k + 2].num_lights
          /\ results[k].total_wattage = results[k + 2].total_wattage

LayoutCount ==
    IF "num_lights" \in DOMAIN request THEN request.num_lights
    ELSE IF "best_option" \in DOMAIN request THEN request.best_option.num_lights
    ELSE results[1].num_lights

\* position <<numerator, denominator>> lies in [0, bound]
Within(position, bound) ==
    /\ position[2] > 0
    /\ 0 <= position[1]
    /\ position[1] <= bound * position[2]

\* C6: called with length L, width W and fixture count N >= 1, the grid loop of
\* create_indoor_layout and of create_outdoor_layout emits exactly N positions,
\* each with 0 <= x <= L and 0 <= y <= W.
C6_LayoutCountAndBounds ==
    pc = "layout_drawn" =>
        /\ Len(fig.x_positions) = LayoutCount
        /\ Len(fig.y_positions) = LayoutCount
        /\ \A k \in 1..Len(fig.x_positions) : Within(fig.x_positions[k], request.area_length)
        /\ \A k \in 1..Len(fig.y_positions) : Within(fig.y_positions[k], request.area_width)

\* C6 witness: an outdoor layout whose grid has more cells than poles, so the
\* loop stopped placing before the grid was full.
C6_Witness ==
    /\ pc = "layout_drawn"
    /\ request.environment = "Outdoor"
    /\ LayoutCount >= 5
    /\ Len(fig.x_positions) = LayoutCount
    /\ LET rows == LightsPerRow(request.area_length, request.area_width, LayoutCount)
       IN  rows * LightsPerCol(LayoutCount, rows) > LayoutCount

\* the remembered call and the present one are calls of the same calculator
\* that differ at most in the argument named field
SameCallExcept(field) ==
    /\ earlier.request.environment = request.environment
    /\ DOMAIN earlier.request = DOMAIN request
    /\ \A f \in DOMAIN request : f # field => earlier.request[f] = request[f]

\* C7: of two calls of a calculator that differ only in the target illuminance,
\* the one with the higher target returns, for every fixture, a num_lights that
\* is not below the other's.
C7_MonotoneInTargetLux ==
    (/\ pc = "calculated"
     /\ SameCallExcept("required_lux")
     /\ earlier.request.required_lux <= request.required_lux) =>
        \A i \in 1..Len(earlier.results), j \in 1..Len(results) :
            SameFixture(earlier.results[i], results[j]) =>
                earlier.results[i].num_lights <= results[j].num_lights

\* C7 witness: an outdoor call with a higher target than the remembered one,
\* other calls in between; one fixture needs more lights than before, another
\* (bound by its coverage) needs the same number.
C7_Witness ==
    /\ pc = "calculated"
    /\ request.environment = "Outdoor"
    /\ SameCallExcept("required_lux")
    /\ earlier.request.required_lux < request.required_lux
    /\ earlier.age >= 1
    /\ \E i \in 1..Len(earlier.results), j \in 1..Len(results) :
          /\ SameFixture(earlier.results[i], results[j])
          /\ earlier.results[i].num_lights < results[j].num_lights
    /\ \E i \in 1..Len(earlier.results), j \in 1..Len(results) :
          /\ SameFixture(earlier.results[i], results[j])
          /\ earlier.results[i].num_lights = results[j].num_lights

Abs(x) == IF x >= 0 THEN x ELSE -x

\* total_wattage * hours_per_day of the energy call, watt-hours per day
WattHours == request.total_wattage * request.hours_per_day

\* C8 as stated: the returned daily consumption and daily cost times 30 equal
\* the returned monthly consumption and monthly cost exactly.
C8_DailyTimes30Exact ==
    pc = "cost_analysed" =>
        /\ 30 * cost_data.daily_consumption = cost_data.monthly_consumption
        /\ 30 * cost_data.daily_cost = cost_data.monthly_cost

\* C8, amended: the returned monthly consumption and cost are 30 times the
\* unrounded daily figures, rounded to two decimals; they are therefore within
\* 0.15 of 30 times the returned (rounded) daily figures, and they do not
\* change when only days_per_year changes.
C8_MonthlyFromUnroundedDaily ==
    pc = "cost_analysed" =>
        /\ Abs(10 * cost_data.monthly_consumption - 30 * WattHours) <= 5
        /\ Abs(1000 * cost_data.monthly_cost - 30 * WattHours * request.cost_per_kwh) <= 500
        /\ Abs(30 * cost_data.daily_consumption - cost_data.monthly_consumption) <= 15
        /\ Abs(30 * cost_data.daily_cost - cost_data.monthly_cost) <= 15
        /\ SameCallExcept("days_per_year") =>
              /\ cost_data.monthly_consumption = earlier.cost_data.monthly_consumption
              /\ cost_data.monthly_cost = earlier.cost_data.monthly_cost

\* C8 witness: an energy call that differs from the remembered one in
\* days_per_year only, and whose monthly figures are not 30 times the returned
\* daily ones.
C8_Witness ==
    /\ pc = "cost_analysed"
    /\ SameCallExcept("days_per_year")
    /\ earlier.request.days_per_year # request.days_per_year
    /\ earlier.age >= 1
    /\ 30 * cost_data.daily_consumption # cost_data.monthly_consumption
    /\ 30 * cost_data.daily_cost # cost_data.monthly_cost

\* C9: the returned yearly consumption and cost are within
\* 0.005 * days_per_year + 0.005 of the returned daily figure times
\* days_per_year, and are the two-decimal rounding of the unrounded daily
\* figure times days_per_year.
C9_YearlyWithinRounding ==
    pc = "cost_analysed" =>
        LET days == request.days_per_year
        IN  /\ 2 * Abs(cost_data.yearly_consumption - days * cost_data.daily_consumption)
                  <= days + 1
            /\ 2 * Abs(cost_data.yearly_cost - days * cost_data.daily_cost) <= days + 1
            /\ Abs(10 * cost_data.yearly_consumption - WattHours * days) <= 5
            /\ Abs(1000 * cost_data.yearly_cost - WattHours * days * request.cost_per_kwh)
                  <= 500

\* C9 witness: a 250-day year in which neither yearly figure is the returned
\* daily figure times 250.
C9_Witness ==
    /\ pc = "cost_analysed"
    /\ request.days_per_year = 250
    /\ cost_data.yearly_consumption # 250 * cost_data.daily_consumption
    /\ cost_data.yearly_cost # 250 * cost_data.daily_cost

\* C10 as stated: for every outdoor fixture with a beam angle in [180, 360]
\* the tangent is taken of a half-angle below 90 degrees and coverage_radius is
\* strictly positive; the candidate's spacing, twice that radius capped at
\* 10 m, is then positive as well.
C10_HalfAngleClamped ==
    (Calculated /\ request.environment = "Outdoor") =>
        /\ \A c \in 1..Len(OUTDOOR_LIGHTS) : \A k \in 1..Len(OUTDOOR_LIGHTS[c].lights) :
              LET light == OUTDOOR_LIGHTS[c].lights[k]
              IN  (180 <= light.beam_angle /\ light.beam_angle <= 360) =>
                      /\ HalfAngleBelow90(light)
                      /\ CoverageRadiusSign(light) = 1
        /\ \A k \in 1..Len(results) :
              (180 <= results[k].beam_angle /\ results[k].beam_angle <= 360) =>
                  results[k].spacing > 0

\* the illuminance range the widgets of main() support (lines 652, 654)
SupportedLux(req) ==
    IF req.environment = "Indoor"
    THEN 20 <= req.required_lux /\ req.required_lux <= 2000
    ELSE 5 <= req.required_lux /\ req.required_lux <= 500

\* length > 0, width > 0, MF and UF in (0, 1], target illuminance supported
ValidRequest(req) ==
    /\ req.area_length > 0
    /\ req.area_width > 0
    /\ 0 < req.maintenance_factor /\ req.maintenance_factor <= 20
    /\ req.environment = "Indoor" =>
          (0 < req.utilization_factor /\ req.utilization_factor <= 20)
    /\ SupportedLux(req)

\* C11 as stated: a calculator entered with a non-positive length or width, a
\* factor outside (0, 1] or an unsupported target illuminance fails with
\* InvalidParameter and returns no candidate list.
C11_InvalidInputRejected ==
    (pc \in {"calculated", "ZeroDivisionError", "InvalidParameter"}
        /\ ~ValidRequest(request)) =>
            /\ pc = "InvalidParameter"
            /\ results = <<>>

\* no fixture is registered in the catalog
NoFixtures(catalog) == \A c \in 1..Len(catalog) : catalog[c].lights = <<>>

\* C12 as stated: with no fixture registered, the calculator reports an
\* EmptyCatalog error instead of returning an empty candidate list.
C12_EmptyCatalogReported ==
    (pc # "sidebar" /\ NoFixtures(RequestCatalog)) =>
        /\ pc = "EmptyCatalog"
        /\ ~(pc = "calculated" /\ results = <<>>)

\* what the request req obtains when it runs alone, on the catalogs as the
\* module defines them
AloneResults(req) ==
    IF req.environment = "Indoor"
    THEN IndoorResults(IndoorCatalog, req.area_length, req.area_width, req.room_height,
                       req.required_lux, req.maintenance_factor, req.utilization_factor)
    ELSE OutdoorResults(OutdoorCatalog, req.area_length, req.area_width, req.required_lux,
                        req.area_type, req.maintenance_factor, req.uniformity_requirement)

\* C13: no engine operation changes the catalogs, and under every
\* interleaving of two sessions each session obtains from the calculator,
\* from calculate_energy_cost, from the layout generator and from the glare
\* and light-pollution functions what its request obtains running alone.
C13_NoInterference ==
    /\ INDOOR_LIGHTS = IndoorCatalog
    /\ OUTDOOR_LIGHTS = OutdoorCatalog
    /\ \A s \in Sessions :
          pc[s].at \in {"returned", "costed", "drawn", "analysed"} =>
              LET req   == request[s]
                  alone == AloneResults(req)
                  best  == alone[1]
              IN  /\ results[s] = alone
                  /\ pc[s].at \in {"costed", "drawn", "analysed"} =>
                        cost_data[s] = CalculateEnergyCost(best.total_wattage,
                            req.hours_per_day, req.days_per_year, req.cost_per_kwh)
                  /\ pc[s].at \in {"drawn", "analysed"} =>
                        fig[s] = IF req.environment = "Indoor"
                                 THEN CreateIndoorLayout(req.area_length, req.area_width,
                                          best.num_lights, best.spacing)
                                 ELSE CreateOutdoorLayout(req.area_length, req.area_width,
                                          alone, best)
                  /\ pc[s].at = "analysed" =>
                        analysis[s] = OutdoorAnalysisOf(best,
                            req.area_length * req.area_width, req.uniformity_requirement)

\* C13 witness: one session has its outdoor analysis in hand while the other,
\* with a different request for the same calculator, is in the middle of the
\* catalog loop.
C13_Witness ==
    /\ pc[1].at = "analysed"
    /\ results[1] = AloneResults(request[1])
    /\ pc[2].at = "loop"
    /\ pc[2].category = 3
    /\ request[2].environment = "Outdoor"
    /\ request[2] # request[1]

\* n fixtures of this kind cover the area: n * coverage_area >= area, on the
\* unrounded coverage_area of line 327 (2 h^2 tan for a strip; beyond every
\* area at the pole of the tangent; h^2 / (25 * TanPiCountCap) quarter square
\* metres for the 360-degree circle)
CoversArea(light, n, area_m2) ==
    LET t == TanHalfBeam(light.beam_angle)
        h == light.mounting_height
    IN  CASE t.kind = "regular" -> n * h * h * t.e4 >= 125000 * area_m2
          [] t.kind = "pole"    -> n >= 1
          [] t.kind = "negzero" -> n * h * h >= 25 * area_m2 * TanPiCountCap

\* n fixtures supply the lumens: n * lumens >= required_lux * area / (MF * UF)
SuppliesLumens(light, n, req) ==
    n * light.lumens * req.maintenance_factor * OutdoorUtilizationFactor
        >= req.required_lux * req.area_length * req.area_width * 100

C15_OneOmnidirectionalThreshold ==
    (Calculated /\ request.environment = "Outdoor") =>
        \A k \in 1..Len(results) :
            \A c \in 1..Len(OUTDOOR_LIGHTS) : \A i \in 1..Len(OUTDOOR_LIGHTS[c].lights) :
                LET light == OUTDOOR_LIGHTS[c].lights[i]
                IN  FromFixture(results[k], [category |-> OUTDOOR_LIGHTS[c].category,
                                             light |-> light]) =>
                        /\ (CoverageShape(light) = "circle") = (results[k].beam_angle >= 180)
                        /\ (SpacingRule(light) = "omnidirectional")
                              = (results[k].beam_angle >= 180)

\* C16 as stated: an indoor candidate's spacing is min(sqrt(area / num_lights),
\* max_spacing) and so never above max_spacing = room_height * tan(beam / 2) * 2;
\* an outdoor candidate's spacing is never above 10 m (beam_angle >= 180) or
\* 15 m and 1.5 coverage radii (otherwise); and every candidate's spacing is
\* strictly positive.
C16_SpacingBoundedPositive ==
    Calculated =>
        \A k \in 1..Len(results) :
            LET c == results[k]
                t == TanHalfBeam(c.beam_angle)
            IN  /\ c.spacing > 0
                /\ c.environment = "Indoor" =>
                      /\ c.spacing <= RoundDiv(request.room_height * t.e4, 500)
                      /\ \/ c.spacing = RoundDiv(request.room_height * t.e4, 500)
                         \/ c.spacing = RoundSqrtCenti(request.area_length * request.area_width,
                                                       4 * c.num_lights)
                /\ c.environment = "Outdoor" =>
                      IF c.beam_angle >= 180
                      THEN c.spacing <= 1000
                      ELSE /\ c.spacing <= 1500
                           /\ c.spacing <= RoundDiv(3 * c.mounting_height * t.e4, 2000)

\* C17: every candidate that calculate_indoor_lights or
\* calculate_outdoor_lights reports has total_wattage equal to num_lights
\* times wattage, as integers, on the reported fields.
C17_TotalWattageIsProduct ==
    Calculated =>
        \A k \in 1..Len(results) :
            results[k].total_wattage = results[k].num_lights * results[k].wattage

\* two positions <<numerator, denominator>> are the same point of the axis
SameFraction(p, q) == p[1] * q[2] = q[1] * p[2]

\* the layout drawn is the first n cells of a rows x cols grid, row index
\* outermost, cell (i, j) at ((i + 1) * L / (rows + 1), (j + 1) * W / (cols + 1))
FirstCellsOfGrid(rows, cols, n) ==
    /\ Len(fig.x_positions) = n
    /\ Len(fig.y_positions) = n
    /\ \A k \in 1..n :
          LET i == (k - 1) \div cols
              j == (k - 1) % cols
          IN  /\ i < rows
              /\ SameFraction(fig.x_positions[k], <<(i + 1) * request.area_length, rows + 1>>)
              /\ SameFraction(fig.y_positions[k], <<(j + 1) * request.area_width, cols + 1>>)

\* C18: for length L, width W and count N the layout generator takes
\* rows = ceil(sqrt(N * L / W)) and cols = ceil(N / rows), spaces the grid by
\* L / (rows + 1) and W / (cols + 1), and emits exactly the first N cells with
\* the row index outermost; rows * cols >= N, and the emitted positions are
\* pairwise distinct.
C18_FirstCellsOfGrid ==
    pc = "layout_drawn" =>
        LET n == LayoutCount
            L == request.area_length
            W == request.area_width
        IN  /\ \E rows \in 1..(n * L), cols \in 1..n :
                  /\ rows * rows * W >= n * L
                  /\ (rows - 1) * (rows - 1) * W < n * L
                  /\ cols * rows >= n
                  /\ (cols - 1) * rows < n
                  /\ FirstCellsOfGrid(rows, cols, n)
            /\ \A k1, k2 \in 1..Len(fig.x_positions) :
                  ( /\ SameFraction(fig.x_positions[k1], fig.x_positions[k2])
                    /\ SameFraction(fig.y_positions[k1], fig.y_positions[k2]) ) => k1 = k2

\* C18 witness: seven fixtures in a 5 m by 2 m room: rows = ceil(sqrt(17.5)) = 5,
\* cols = 2, ten cells, and the seventh position is cell (3, 0) at
\* x = 4 * 10 / 6 half metres, y = 1 * 4 / 3 half metres.
C18_Witness ==
    /\ pc = "layout_drawn"
    /\ request.environment = "Indoor"
    /\ request.area_length = 10
    /\ request.area_width = 4
    /\ LayoutCount = 7
    /\ Len(fig.x_positions) = 7
    /\ fig.x_positions[7] = <<40, 6>>
    /\ fig.y_positions[7] = <<4, 3>>

\* C19: within one outdoor request every candidate reports the same
\* uniformity, the two-decimal value of maintenance_factor * 0.5, whatever
\* its fixture, and the uniformity check of the analysis compares
\* maintenance_factor * 0.5 with the requirement: its outcome depends on the
\* maintenance factor only.
C19_UniformityIsMaintenanceTimesUtilization ==
    (Calculated /\ request.environment = "Outdoor") =>
        LET product == request.maintenance_factor * OutdoorUtilizationFactor
        IN  /\ \A j, k \in 1..Len(results) : results[j].uniformity = results[k].uniformity
            /\ \A k \in 1..Len(results) :
                  /\ 4 * results[k].uniformity - product <= 2
                  /\ product - 4 * results[k].uniformity <= 2
            /\ pc \in {"analysed", "cost_analysed"} =>
                  (analysis.uniformity_met <=> product >= 4 * request.uniformity_requirement)

\* floor(light_intensity * cos(angle) * 10^4), limb by limb as in GlareIndex
GlareTenThousandths(light_intensity, angle) ==
    LET cos == CosDegrees(angle)
    IN  light_intensity * cos.e4
            + (light_intensity * cos.e7 + (light_intensity * cos.e13) \div 1000000) \div 1000

\* lumens * cos(30 degrees) / mounting_height^2 < bound, on the unrounded
\* quotient; the mounting height is in tenths of a metre
UnroundedGlareBelow(best_option, bound) ==
    GlareTenThousandths(best_option.lumens, 30)
        < 100 * bound * best_option.mounting_height * best_option.mounting_height

\* the class the thresholds 10 and 20 give the unrounded quotient
UnroundedGlareClass(best_option) ==
    IF UnroundedGlareBelow(best_option, 10) THEN "Low Glare"
    ELSE IF UnroundedGlareBelow(best_option, 20) THEN "Moderate Glare"
    ELSE "High Glare"

PollutionNum == 200 * results[1].total_wattage

PollutionDen == area * results[1].mounting_height

\* C21: once main() has analysed the recommended outdoor candidate, the risk
\* it holds is "Low" exactly if the index total_wattage * 100 * 0.05 /
\* (area * mounting_height) is below 1, "Medium" exactly if the index is at
\* least 1 and below 2, "High" exactly if it is 2 or more - one class for
\* every request - and the index returned is that value to within half a
\* hundredth.
C21_PollutionClassOfIndex ==
    (pc \in {"analysed", "cost_analysed"} /\ request.environment = "Outdoor") =>
        /\ PollutionDen > 0
        /\ analysis.pollution.risk \in {"Low", "Medium", "High"}
        /\ (analysis.pollution.risk = "Low") = (PollutionNum < PollutionDen)
        /\ (analysis.pollution.risk = "Medium") =
               (PollutionNum >= PollutionDen /\ PollutionNum < 2 * PollutionDen)
        /\ (analysis.pollution.risk = "High") = (PollutionNum >= 2 * PollutionDen)
        /\ 2 * Abs(100 * PollutionNum - analysis.pollution.index * PollutionDen) <= PollutionDen

\* reached: one 50 W post top at 5 m over 1.5 m x 33.5 m, index 0.995: the
\* class is "Low" and the index returned is 1.0
C21_Witness ==
    /\ pc = "analysed"
    /\ request.environment = "Outdoor"
    /\ results[1].total_wattage = 50
    /\ PollutionNum < PollutionDen
    /\ analysis.pollution.risk = "Low"
    /\ analysis.pollution.index = 100

(***************************************************************************)
(* C22: the candidate records after the calculator returned                *)
(***************************************************************************)
\* C22: from the return of the calculator to the end of the run (energy
\* costs, layout, outdoor analysis, cost analysis and report), no step
\* adds, removes or changes a field of a candidate record: the list main()
\* holds, and with it the recommended candidate results[0] that goes into
\* the report, stays what the calculator returned.
C22_CandidatesImmutable ==
    [][(pc \in {"calculated", "costs_added", "layout_drawn", "analysed"}) => (results' = results)]_vars

LargestIndoorLumens ==
    LET items == CatalogLoop(INDOOR_LIGHTS, 1)
    IN  CHOOSE m \in {items[k].light.lumens : k \in 1..Len(items)} :
            \A k \in 1..Len(items) : items[k].light.lumens <= m

====
